---- MODULE Spec2Model ----
(***************************************************************************)
(* A model of the GPU particle layer of src/particle-layer.ts: the layer   *)
(* lifecycle (updateState / draw / requestStep / step / clear /            *)
(* finalizeState), the double-buffered cohort store, and the transform     *)
(* shader that computes the youngest cohort.                               *)
(*                                                                         *)
(* Numbers.  The program computes in floating point; the model computes   *)
(* in fixed point.  A coordinate is an integer number of 1/U degree, a     *)
(* texel channel is a byte k standing for k/255, a blend factor is         *)
(* b/BlendDen, a random number is n/RandDen.  U is chosen so that every    *)
(* displacement the model can produce is a whole number of units.          *)
(***************************************************************************)
EXTENDS Integers, Sequences, FiniteSets, TLC

\* ------------------------------------------------------------------------
\* Bounds of the model
\* ------------------------------------------------------------------------
MaxZoom == 1        \* viewport zoom levels are 0..MaxZoom
MaxTime == 48       \* the timeline runs from 0 to MaxTime milliseconds
MaxTimers == 2      \* at most this many setTimeout callbacks are pending
MaxLiveTime == 99   \* the timeline of the animation loop runs from 0 to MaxLiveTime
RandDen == 2        \* randFloat yields n/RandDen, n in 0..RandDen-1
BlendDen == 2       \* the blend prop is b/BlendDen, b in 0..BlendDen
MaxTurns == 2       \* longitudes lie within MaxTurns turns of zero, and a little beyond

\* ------------------------------------------------------------------------
\* Program constants
\* ------------------------------------------------------------------------
FPS == 30
ByteMax == 255      \* an 8-bit texel channel k stands for k/255

RECURSIVE Pow2(_)
Pow2(n) == IF n <= 0 THEN 1 ELSE 2 * Pow2(n - 1)

\* units per degree: a velocity of 1/BlendDen degree per tick at zoom MaxZoom
\* and speed factor 1 moves a particle by one unit
U == BlendDen * Pow2(MaxZoom + 7)
Deg(d) == d * U

Undef == "undefined"
Unset == 0 - 1      \* an undefined number
NoRef == 0          \* an undefined object reference
Null == "null"
Url == "url"

\* ------------------------------------------------------------------------
\* Host-side longitude / bounds utility (particle-layer.ts 531-555)
\* ------------------------------------------------------------------------
\* JavaScript's % truncates towards zero
JsRem(x, y) == IF x >= 0 THEN x % y ELSE -((-x) % y)

\* a faulty modulo that keeps the sign of the dividend; WrappedIntoTurn tells
\* it from modulo
modulo_truncating(x, y) == JsRem(x, y)

modulo(x, y) == JsRem(JsRem(x, y) + y, y)

\* a faulty wrapLongitude that ignores the minimum; WrappedAtOrAboveMinimum
\* tells it from wrapLongitude
wrapLongitude_noMinimum(lng, minLng) ==
  modulo(lng + Deg(180), Deg(360)) - Deg(180)

\* the optional second argument is <<m>>, or <<>> when it is omitted
wrapLongitude(lng, minLng) ==
  LET wrappedLng == modulo(lng + Deg(180), Deg(360)) - Deg(180)
  IN  IF minLng # <<>> /\ wrappedLng < minLng[1]
      THEN wrappedLng + Deg(360)
      ELSE wrappedLng

\* a faulty Math.max that returns its first argument; LatitudeClamped tells it
\* from Max2
Max2_first(a, b) == a

Max2(a, b) == IF a >= b THEN a ELSE b
Min2(a, b) == IF a <= b THEN a ELSE b

\* a faulty wrapBounds that wraps the maximum without the minimum;
\* WrappedBoxNotInverted tells it from wrapBounds
wrapBounds_maxAlone(bounds) ==
  LET minLng == IF bounds[3] - bounds[1] < Deg(360)
                THEN wrapLongitude(bounds[1], <<>>) ELSE Deg(-180)
      maxLng == IF bounds[3] - bounds[1] < Deg(360)
                THEN wrapLongitude(bounds[3], <<>>) ELSE Deg(180)
  IN  <<minLng, Max2(bounds[2], Deg(-90)), maxLng, Min2(bounds[4], Deg(90))>>

\* a faulty wrapBounds that keeps the minimum longitude as it came;
\* SpanPreserved tells it from wrapBounds
wrapBounds_minKept(bounds) ==
  LET minLng == IF bounds[3] - bounds[1] < Deg(360) THEN bounds[1] ELSE Deg(-180)
      maxLng == IF bounds[3] - bounds[1] < Deg(360)
                THEN wrapLongitude(bounds[3], <<minLng>>) ELSE Deg(180)
  IN  <<minLng, Max2(bounds[2], Deg(-90)), maxLng, Min2(bounds[4], Deg(90))>>

\* a faulty wrapBounds that still wraps a span of exactly 360;
\* FullSpanCollapses tells it from wrapBounds
wrapBounds_spanInclusive(bounds) ==
  LET minLng == IF bounds[3] - bounds[1] <= Deg(360)
                THEN wrapLongitude(bounds[1], <<>>) ELSE Deg(-180)
      maxLng == IF bounds[3] - bounds[1] <= Deg(360)
                THEN wrapLongitude(bounds[3], <<minLng>>) ELSE Deg(180)
  IN  <<minLng, Max2(bounds[2], Deg(-90)), maxLng, Min2(bounds[4], Deg(90))>>

\* bounds are <<minLng, minLat, maxLng, maxLat>>
wrapBounds(bounds) ==
  LET minLng == IF bounds[3] - bounds[1] < Deg(360)
                THEN wrapLongitude(bounds[1], <<>>) ELSE Deg(-180)
      maxLng == IF bounds[3] - bounds[1] < Deg(360)
                THEN wrapLongitude(bounds[3], <<minLng>>) ELSE Deg(180)
      minLat == Max2(bounds[2], Deg(-90))
      maxLat == Min2(bounds[4], Deg(90))
  IN  <<minLng, minLat, maxLng, maxLat>>

\* viewport is [zoom, box]; box is what viewport.getBounds() returns
getViewportBounds(viewport) == wrapBounds(viewport.box)

\* ------------------------------------------------------------------------
\* The transform shader (particle-layer.ts 557-714)
\* ------------------------------------------------------------------------
\* a position record is [x, y, z]: longitude, latitude, speed magnitude
DROP_POSITION == <<0, 0>>

Rec(x, y, z) == [x |-> x, y |-> y, z |-> z]
Sentinel == Rec(0, 0, 0)
XY(r) == <<r.x, r.y>>

\* GLSL mod(x, y) = x - y * floor(x / y)
GlslMod(x, y) == x - y * (x \div y)

shWrapLongitude1(lng) == GlslMod(lng + Deg(180), Deg(360)) - Deg(180)

\* a faulty shader wrap that also lifts a longitude equal to the minimum;
\* HostAndShaderWrapAgree tells it from shWrapLongitude2
shWrapLongitude2_inclusive(lng, minLng) ==
  LET wrappedLng == shWrapLongitude1(lng)
  IN  IF wrappedLng <= minLng THEN wrappedLng + Deg(360) ELSE wrappedLng

shWrapLongitude2(lng, minLng) ==
  LET wrappedLng == shWrapLongitude1(lng)
  IN  IF wrappedLng < minLng THEN wrappedLng + Deg(360) ELSE wrappedLng

\* randFloat: fract(sin(dot(seed, c)) * 43758.5453), a hash into [0, 1).
\* The model keeps its signature (a deterministic function of the seed
\* vector) and its range, as the numerator of n/RandDen.  The seed vector is
\* vec2(q) + salt, where q = particleIndex * seed / numParticles.
randFloat(q, salt) == (q + salt) % RandDen

\* randPoint: <<randFloat(seed + 1.3), randFloat(seed + 2.1)>>
randPoint(q) == <<randFloat(q, 1), randFloat(q, 2)>>

\* smoothstep(0, 1, n/RandDen) = t*t*(3 - 2t), as a numerator over RandDen^3
smoothstepNum(n) == n * n * (3 * RandDen - 2 * n)
smoothstepDen == RandDen * RandDen * RandDen

\* mix(a, b, num/den) = a + (b - a) * num / den
mix(a, b, num, den) == a + ((b - a) * num) \div den

pointToPosition(point, viewportBounds) ==
  <<mix(viewportBounds[1], viewportBounds[3], point[1], RandDen),
    mix(viewportBounds[2], viewportBounds[4], smoothstepNum(point[2]), smoothstepDen)>>

\* a faulty domain test that accepts every position; OutOfDomainHeld tells it
\* from isPositionInBounds
isPositionInBounds_everywhere(position, bounds) == TRUE

isPositionInBounds(position, bounds) ==
  LET lng == shWrapLongitude2(position[1], bounds[1])
      lat == position[2]
  IN  /\ bounds[1] <= lng /\ lng <= bounds[3]
      /\ bounds[2] <= lat /\ lat <= bounds[4]

isPositionInViewport(position, bitmap) ==
  isPositionInBounds(position, bitmap.viewportBounds)

\* A texture is a uniform image: every uv samples the same texel
\* [r, g, b, a, nan]; nan says that the R channel of a float texture is NaN.
Texel(r, g, b, a, nan) == [r |-> r, g |-> g, b |-> b, a |-> a, nan |-> nan]

Textures == {"T1", "T2", "T3", "T4"}

TexelOf(tex) ==
  CASE tex = "T1" -> Texel(129, 128, 51, 255, FALSE)    \* eastward, valid
    [] tex = "T2" -> Texel(128, 129, 102, 255, FALSE)   \* northward, valid
    [] tex = "T4" -> Texel(255, 0, 51, 0, FALSE)        \* R = 1, G = 0, alpha 0
    [] OTHER      -> Texel(0, 0, 0, 0, TRUE)            \* no data

\* mix(c0, c1, blend) per channel, as a numerator over ByteMax * BlendDen
mixTexel(c0, c1, b) ==
  [r |-> c0.r * (BlendDen - b) + c1.r * b,
   g |-> c0.g * (BlendDen - b) + c1.g * b,
   b |-> c0.b * (BlendDen - b) + c1.b * b,
   a |-> c0.a * (BlendDen - b) + c1.a * b,
   nan |-> c0.nan \/ c1.nan]

ChanDen == ByteMax * BlendDen

\* a faulty validity test that reads the alpha channel in both modes;
\* DecodeModeByBounds tells it from rasterHasValues
rasterHasValues_alphaOnly(values, bitmap) == values.a >= ChanDen

rasterHasValues(values, bitmap) ==
  IF bitmap.imageUnscale[1] < bitmap.imageUnscale[2]
  THEN values.a >= ChanDen
  ELSE ~values.nan

\* the velocity in units of 1/BlendDen
rasterGetValues(colour, bitmap) ==
  IF bitmap.imageUnscale[1] < bitmap.imageUnscale[2]
  THEN LET lo == bitmap.imageUnscale[1]
           hi == bitmap.imageUnscale[2]
       IN  <<lo * BlendDen + ((hi - lo) * colour.r) \div ByteMax,
             lo * BlendDen + ((hi - lo) * colour.g) \div ByteMax>>
  ELSE <<colour.r \div ByteMax, colour.g \div ByteMax>>

\* cos(radians(lat)) as a numerator over CosDen(lat): Bhaskara's rational
\* approximation, exact at 0, 60 and 90 degrees, on whole degrees
Abs(x) == IF x >= 0 THEN x ELSE -x
WholeDeg(lat) == Abs(lat) \div U
CosNum(lat) == 32400 - 4 * WholeDeg(lat) * WholeDeg(lat)
CosDen(lat) == 32400 + WholeDeg(lat) * WholeDeg(lat)

\* a faulty scaling that leaves the zoom out of the displacement;
\* AdvectedByZoomScaledVelocity tells it from speedUnits
speedUnits_zoomless(v, bitmap) == (v * bitmap.speedFactor.num * U) \div BlendDen

\* the displacement of one tick, in units: velocity (1/BlendDen degree) times
\* speedFactor / 2^(zoom + 7) times U
speedUnits(v, bitmap) ==
  (v * bitmap.speedFactor.num * U) \div (BlendDen * Pow2(bitmap.speedFactor.shift))

\* a faulty advection that scales the longitude offset by the distortion;
\* DistortionOnLatitude tells it from updatedPosition
updatedPosition_longitude(position, speed) ==
  LET offset == <<(speed[1] * CosNum(position[2])) \div CosDen(position[2]),
                  speed[2]>>
  IN  <<position[1] + offset[1], position[2] + offset[2]>>

updatedPosition(position, speed) ==
  LET offset == <<speed[1],
                  (speed[2] * CosNum(position[2])) \div CosDen(position[2])>>
  IN  <<position[1] + offset[1], position[2] + offset[2]>>

\* the particle seed vec2(particleIndex * seed / numParticles), quantised
particleSeed(particleIndex, bitmap) ==
  (particleIndex * bitmap.seed * 2) \div bitmap.numParticles

Dropped == Rec(0, 0, 0)

\* a faulty respawn that scatters over the field domain instead of the
\* viewport; FirstTickRespawns tells it from respawn
respawn_overDomain(particleIndex, bitmap) ==
  LET point == randPoint(particleSeed(particleIndex, bitmap))
      position == pointToPosition(point, bitmap.bounds)
  IN  Rec(shWrapLongitude1(position[1]), position[2], 0)

respawn(particleIndex, bitmap) ==
  LET point == randPoint(particleSeed(particleIndex, bitmap))
      position == pointToPosition(point, bitmap.viewportBounds)
  IN  Rec(shWrapLongitude1(position[1]), position[2], 0)

\* viewportZoomChangeFactor is num/den, a power of two
zoomThinned(particleIndex, bitmap) ==
  LET f == bitmap.viewportZoomChangeFactor
  IN  /\ f.num > f.den
      /\ GlslMod(particleIndex * f.den, f.num) >= f.den

\* a faulty age rule with period maxAge + 1; AgeDropFollowsTime tells it from
\* ageDropped
ageDropped_shortPeriod(particleIndex, bitmap) ==
  Abs(GlslMod(particleIndex, bitmap.maxAge + 1)
        - GlslMod(bitmap.time, bitmap.maxAge + 1)) < 1

ageDropped(particleIndex, bitmap) ==
  Abs(GlslMod(particleIndex, bitmap.maxAge + 2)
        - GlslMod(bitmap.time, bitmap.maxAge + 2)) < 1

sampleColour(bitmap) ==
  mixTexel(TexelOf(bitmap.bitmapTexture), TexelOf(bitmap.bitmapTextureNext),
           bitmap.blend)

advect(sourcePosition, bitmap) ==
  LET bitmapColour == sampleColour(bitmap)
      v == rasterGetValues(bitmapColour, bitmap)
      speed == <<speedUnits(v[1], bitmap), speedUnits(v[2], bitmap)>>
      p == updatedPosition(XY(sourcePosition), speed)
  IN  Rec(shWrapLongitude1(p[1]), p[2], bitmapColour.b)

\* a faulty main() that respawns a particle on the tick that drops it by age;
\* SegmentsWithinOneLife tells it from main
main_respawnOnDrop(gl_VertexID, sourcePosition, bitmap) ==
  LET particleIndex == GlslMod(gl_VertexID, bitmap.numParticles)
      particleAge == gl_VertexID \div bitmap.numParticles
  IN  IF particleAge > 0 THEN <<>>
      ELSE IF XY(sourcePosition) = DROP_POSITION
        THEN <<respawn(particleIndex, bitmap)>>
      ELSE IF zoomThinned(particleIndex, bitmap) THEN <<Dropped>>
      ELSE IF ageDropped(particleIndex, bitmap)
        THEN <<respawn(particleIndex, bitmap)>>
      ELSE IF ~isPositionInBounds(XY(sourcePosition), bitmap.bounds)
        THEN <<Rec(sourcePosition.x, sourcePosition.y, sourcePosition.z)>>
      ELSE IF ~isPositionInViewport(XY(sourcePosition), bitmap) THEN <<Dropped>>
      ELSE IF ~rasterHasValues(sampleColour(bitmap), bitmap) THEN <<Dropped>>
      ELSE <<advect(sourcePosition, bitmap)>>

\* a faulty main() that thins before it respawns; SentinelRespawnedOnNextTick
\* tells it from main
main_thinningFirst(gl_VertexID, sourcePosition, bitmap) ==
  LET particleIndex == GlslMod(gl_VertexID, bitmap.numParticles)
      particleAge == gl_VertexID \div bitmap.numParticles
  IN  IF particleAge > 0 THEN <<>>
      ELSE IF zoomThinned(particleIndex, bitmap) THEN <<Dropped>>
      ELSE IF XY(sourcePosition) = DROP_POSITION
        THEN <<respawn(particleIndex, bitmap)>>
      ELSE IF ageDropped(particleIndex, bitmap) THEN <<Dropped>>
      ELSE IF ~isPositionInBounds(XY(sourcePosition), bitmap.bounds)
        THEN <<Rec(sourcePosition.x, sourcePosition.y, sourcePosition.z)>>
      ELSE IF ~isPositionInViewport(XY(sourcePosition), bitmap) THEN <<Dropped>>
      ELSE IF ~rasterHasValues(sampleColour(bitmap), bitmap) THEN <<Dropped>>
      ELSE <<advect(sourcePosition, bitmap)>>

\* a faulty main() that tests the viewport before the domain;
\* FirstMatchingRuleWins tells it from main
main_viewportFirst(gl_VertexID, sourcePosition, bitmap) ==
  LET particleIndex == GlslMod(gl_VertexID, bitmap.numParticles)
      particleAge == gl_VertexID \div bitmap.numParticles
  IN  IF particleAge > 0 THEN <<>>
      ELSE IF XY(sourcePosition) = DROP_POSITION
        THEN <<respawn(particleIndex, bitmap)>>
      ELSE IF zoomThinned(particleIndex, bitmap) THEN <<Dropped>>
      ELSE IF ageDropped(particleIndex, bitmap) THEN <<Dropped>>
      ELSE IF ~isPositionInViewport(XY(sourcePosition), bitmap) THEN <<Dropped>>
      ELSE IF ~isPositionInBounds(XY(sourcePosition), bitmap.bounds)
        THEN <<Rec(sourcePosition.x, sourcePosition.y, sourcePosition.z)>>
      ELSE IF ~rasterHasValues(sampleColour(bitmap), bitmap) THEN <<Dropped>>
      ELSE <<advect(sourcePosition, bitmap)>>

\* main(): <<r>> when the invocation for vertex gl_VertexID writes r to
\* targetPosition, <<>> when it returns before writing
NoWrite == <<>>

main(gl_VertexID, sourcePosition, bitmap) ==
  LET particleIndex == GlslMod(gl_VertexID, bitmap.numParticles)
      particleAge == gl_VertexID \div bitmap.numParticles
  IN  IF particleAge > 0 THEN NoWrite
      ELSE IF XY(sourcePosition) = DROP_POSITION
        THEN <<respawn(particleIndex, bitmap)>>
      ELSE IF zoomThinned(particleIndex, bitmap) THEN <<Dropped>>
      ELSE IF ageDropped(particleIndex, bitmap) THEN <<Dropped>>
      ELSE IF ~isPositionInBounds(XY(sourcePosition), bitmap.bounds)
        THEN <<Rec(sourcePosition.x, sourcePosition.y, sourcePosition.z)>>
      ELSE IF ~isPositionInViewport(XY(sourcePosition), bitmap) THEN <<Dropped>>
      ELSE IF ~rasterHasValues(sampleColour(bitmap), bitmap) THEN <<Dropped>>
      ELSE <<advect(sourcePosition, bitmap)>>

\* The fragment stage of the line shader.  vSpeed is the z component of
\* the target position, a numerator over ChanDen; a colour is <<r, g, b>>,
\* numerators over 10 * ChanDen.
nullschoolColormap(vSpeed) ==
  LET t == Max2(0, Min2(vSpeed, ChanDen))
      seg == IF 4 * t < ChanDen THEN 0
             ELSE IF 4 * t < 2 * ChanDen THEN 1
             ELSE IF 4 * t < 3 * ChanDen THEN 2 ELSE 3
      stops == << <<0, 8, 10>>, <<0, 10, 4>>, <<10, 10, 0>>, <<10, 5, 0>>, <<9, 0, 0>> >>
      a == stops[seg + 1]
      b == stops[seg + 2]
  IN  [c \in 1 .. 3 |-> a[c] * ChanDen + (b[c] - a[c]) * (4 * t - seg * ChanDen)]

\* DECKGL_FILTER_COLOR: the colour of a fragment of a layer created with the
\* prop colorScheme; the layer declares no such prop and the hook reads none
DECKGL_FILTER_COLOR(colorScheme, vSpeed) == nullschoolColormap(vSpeed)

\* ------------------------------------------------------------------------
\* State
\* ------------------------------------------------------------------------
VARIABLES
  scope,      \* which family of inputs the host draws from (never changes)
  props,      \* this.props
  state,      \* this.state
  heap,       \* the GPU objects the device has created
  timers,     \* due times of the pending setTimeout callbacks, oldest first
  time,       \* context.timeline.getTime(), in milliseconds
  viewport,   \* context.viewport: [zoom, box]
  finalized,  \* finalizeState has run
  obs,        \* observations of the run, read by the properties only
  sh,         \* one shader invocation: its inputs and what it wrote
  call,       \* one call of a host utility: its arguments and its result
  app         \* the demo application's React state

vars == <<scope, props, state, heap, timers, time, viewport, finalized, obs, sh, call,
          app>>

\* GPU objects: position buffers, the colour buffer and the transform
HeapIds == 1 .. 8

Free == [kind |-> "free", live |-> FALSE, data |-> <<>>, src |-> 0, dst |-> 0]

\* device.createBuffer / new BufferTransform take the lowest identifier that
\* names no live object
Alloc(hp, taken) ==
  CHOOSE i \in HeapIds \ taken :
    /\ ~hp[i].live
    /\ \A j \in HeapIds \ taken : ~hp[j].live => i <= j

\* !x for a numeric prop
\* a faulty validity test that misses undefined; InvalidParametersIdle tells
\* it from Falsy
Falsy_zeroOnly(x) == x = 0

Falsy(x) == x = 0 \/ x = Unset

Globe == <<Deg(-180), Deg(-90), Deg(180), Deg(90)>>
Region == <<Deg(-30), Deg(50), Deg(40), Deg(85)>>

NullUnscale == <<>>   \* imageUnscale: null, the default

MkProps(np, ma, w, img, nxt, an, bnds, sf, bl, us) ==
  [numParticles |-> np, maxAge |-> ma, width |-> w, image |-> img,
   imageNext |-> nxt, animate |-> an, bounds |-> bnds, speedFactor |-> sf,
   blend |-> bl, imageUnscale |-> us, color |-> <<255, 255, 255, 255>>]

\* <<numParticles, maxAge, width>>: a base, each parameter changed to another
\* valid value (among them the shortest trail, maxAge 1, and a trail of four
\* cohorts), each parameter zero, and numParticles unset
Structures ==
  { <<2, 3, 1>>, <<1, 3, 1>>, <<2, 2, 1>>, <<2, 3, 2>>, <<2, 1, 1>>, <<1, 4, 1>>,
    <<0, 3, 1>>, <<2, 0, 1>>, <<2, 3, 0>>, <<Unset, 3, 1>> }

\* The host draws its inputs from one of four families.  "structure" varies
\* the structural parameters, "textures" the image props and animate,
\* "ticks" the zoom, the seed and the field data of the simulation, and
\* "domain" the field domain and the viewport box.  A fifth family, "live",
\* is the host of the animation loop: animate is on, numParticles changes
\* between two valid values and zero, and the images change with it.
Scopes == {"structure", "textures", "ticks", "domain"}

PropsSpace(sc) ==
  CASE sc = "structure" ->
         { MkProps(st[1], st[2], st[3], img, Null, TRUE, Globe, 1, 0, <<-128, 127>>) :
             st \in Structures, img \in {Null, "T1"} }
    [] sc = "textures" ->
         { MkProps(2, 2, 1, img, nxt, an, Globe, 1, 0, <<-128, 127>>) :
             img \in {Null, Url, "T1", "T3"}, nxt \in {Null, Url, "T2"},
             an \in BOOLEAN }
    [] sc = "ticks" ->
         { MkProps(2, 3, 1, img, Null, FALSE, Globe, 1, 0, <<-128, 127>>) :
             img \in {"T1", "T3"} }
    [] sc = "live" ->
         { MkProps(np, 2, 1, img[1], img[2], TRUE, Globe, 1, 0, <<-128, 127>>) :
             np \in {1, 2, 0}, img \in { <<"T1", Null>>, <<"T3", "T2">> } }
    [] OTHER ->
         { MkProps(2, 3, 1, "T1", Null, FALSE, bnds, 1, 0, <<-128, 127>>) :
             bnds \in {Globe, Region} }

Zooms == 0 .. MaxZoom

HomeBox == <<Deg(-10), Deg(40), Deg(30), Deg(80)>>
DateLineBox == <<Deg(170), Deg(-20), Deg(200), Deg(20)>>

ViewportSpace(sc) ==
  CASE sc = "ticks" -> { [zoom |-> z, box |-> HomeBox] : z \in Zooms }
    [] sc = "domain" -> { [zoom |-> 0, box |-> b] : b \in {HomeBox, DateLineBox} }
    [] OTHER -> { [zoom |-> 0, box |-> HomeBox] }

\* Math.random() is s/2
SeedSpace(sc) ==
  CASE sc = "ticks" -> {0, 1}
    [] sc = "domain" -> {0}
    [] OTHER -> {1}

\* the steps by which the timeline advances, in milliseconds
TimeSteps(sc) == IF sc \in {"ticks", "domain"} THEN {12} ELSE {33}

\* the bound of the timeline
TimeBound(sc) == IF sc = "live" THEN MaxLiveTime ELSE MaxTime

\* setTimeout(f, 1000 / FPS): the delay in whole milliseconds
TimerDelay == 1000 \div FPS

InitState ==
  [initialized |-> FALSE, numInstances |-> Unset, numAgedInstances |-> Unset,
   sourcePositions |-> NoRef, targetPositions |-> NoRef, colors |-> NoRef,
   transform |-> NoRef, previousViewportZoom |-> Unset, previousTime |-> Unset,
   texture |-> Undef, textureNext |-> Undef, stepRequested |-> Undef]

InitObs ==
  [written |-> <<>>,          \* the transform's outputs since the buffers were
                              \* last zeroed, newest first, at most
                              \* maxAge + 1
   usedDestroyed |-> FALSE,   \* an operation touched a destroyed object
   errorRaised |-> FALSE,     \* an operation threw
   copyOutOfRange |-> FALSE,  \* a buffer copy ran past the end of a buffer
   deferred |-> FALSE,        \* an update met a placeholder image and set
                              \* nothing up
   stepsAtTime |-> 0]         \* step() calls at this time since the last update
                              \* or teardown, counted up to 2

\* ------------------------------------------------------------------------
\* The layer's methods, as functions of w = [st, hp, o]: this.state, the
\* device's objects and the observations
\* ------------------------------------------------------------------------
World(st, hp, o) == [st |-> st, hp |-> hp, o |-> o]

Live(hp, ref) == ref # NoRef /\ hp[ref].live

\* what an operation that uses the objects refs leaves in the observations
Touch(o, hp, refs) ==
  [o EXCEPT !.usedDestroyed = @ \/ \E r \in refs : r # NoRef /\ ~hp[r].live,
            !.errorRaised = @ \/ NoRef \in refs]

\* a faulty teardown that leaves the state pointing at the destroyed objects;
\* NoUseAfterDestroy tells it from AfterDelete
AfterDelete_staleState(st) == st

\* the state fields _deleteTransformFeedback sets
AfterDelete(st) ==
  [st EXCEPT !.initialized = FALSE, !.sourcePositions = NoRef,
             !.targetPositions = NoRef, !.colors = NoRef, !.transform = NoRef]

\* a faulty teardown that destroys the buffers and forgets the transform;
\* DestroyedExactlyOnce tells it from _deleteTransformFeedback
_deleteTransformFeedback_keepsTransform(w) ==
  IF ~w.st.initialized THEN w
  ELSE LET refs == {w.st.sourcePositions, w.st.targetPositions, w.st.colors}
       IN  World(AfterDelete(w.st),
                 [i \in HeapIds |-> IF i \in refs THEN Free ELSE w.hp[i]],
                 Touch(w.o, w.hp, refs))

_deleteTransformFeedback(w) ==
  IF ~w.st.initialized THEN w
  ELSE LET refs == {w.st.sourcePositions, w.st.targetPositions, w.st.colors,
                    w.st.transform}
       IN  World(AfterDelete(w.st),
                 [i \in HeapIds |-> IF i \in refs THEN Free ELSE w.hp[i]],
                 Touch(w.o, w.hp, refs))

\* a faulty colour fill without the age fade; AlphaStoredNormalised tells it
\* from ColorAlpha
ColorAlpha_noFade(i, p) == p.color[4] * p.maxAge

\* the alpha of record i (0-based), times 255 * maxAge
ColorAlpha(i, p) ==
  LET age == i \div p.numParticles
  IN  p.color[4] * (p.maxAge - age)

\* typeof image === "string" || image === null
\* a faulty setup guard that lets every image through;
\* SetupDeferredUntilTexture tells it from IsPlaceholder
IsPlaceholder_never(img) == FALSE

IsPlaceholder(img) == img = Url \/ img = Null

\* the state fields _setupTransformFeedback resets besides the objects
StepRequestedAfterSetup == "false"
PreviousTimeAfterSetup == 0

\* a faulty count that takes every cohort for an aged one; CopyWithinBuffers
\* tells it from AgedInstances
AgedInstances_allCohorts(numParticles, maxAge) == numParticles * maxAge

\* numAgedInstances: the records of all cohorts but the youngest
AgedInstances(numParticles, maxAge) == numParticles * (maxAge - 1)

\* a faulty setup that keeps the old set alive; OneResourceSet tells it from
\* ReleaseOld
ReleaseOld_skipped(w0) == w0

\* setup begins by deleting the set of a ready layer
ReleaseOld(w0) == IF w0.st.initialized THEN _deleteTransformFeedback(w0) ELSE w0

\* a faulty choice that takes imageNext as it is given; RebuildStartsAfresh
\* tells it from NextTexture
NextTexture_asGiven(p) == p.imageNext

\* texNext: if next not ready yet, reuse current
NextTexture(p) == IF IsPlaceholder(p.imageNext) THEN p.image ELSE p.imageNext

_setupTransformFeedback(w0, p) ==
  LET w == ReleaseOld(w0)
  IN  IF IsPlaceholder(p.image) THEN w
      ELSE
        LET texNext == NextTexture(p)
            numInstances == p.numParticles * p.maxAge
            numAgedInstances == AgedInstances(p.numParticles, p.maxAge)
            sourcePositions == Alloc(w.hp, {})
            targetPositions == Alloc(w.hp, {sourcePositions})
            colors == Alloc(w.hp, {sourcePositions, targetPositions})
            transform == Alloc(w.hp, {sourcePositions, targetPositions, colors})
            zeros == [i \in 1 .. numInstances |-> Sentinel]
            hp == [w.hp EXCEPT
                     ![sourcePositions] =
                        [kind |-> "positions", live |-> TRUE, data |-> zeros,
                         src |-> 0, dst |-> 0],
                     ![targetPositions] =
                        [kind |-> "positions", live |-> TRUE, data |-> zeros,
                         src |-> 0, dst |-> 0],
                     ![colors] =
                        [kind |-> "colors", live |-> TRUE,
                         data |-> [i \in 1 .. numInstances |-> ColorAlpha(i - 1, p)],
                         src |-> 0, dst |-> 0],
                     ![transform] =
                        [kind |-> "transform", live |-> TRUE,
                         data |-> <<p.numParticles>>,
                         src |-> sourcePositions, dst |-> targetPositions]]
            st == [initialized |-> TRUE,
                   numInstances |-> numInstances,
                   numAgedInstances |-> numAgedInstances,
                   sourcePositions |-> sourcePositions,
                   targetPositions |-> targetPositions,
                   colors |-> colors,
                   transform |-> transform,
                   texture |-> p.image,
                   textureNext |-> texNext,
                   previousViewportZoom |-> 0,
                   previousTime |-> PreviousTimeAfterSetup,
                   stepRequested |-> StepRequestedAfterSetup]
        IN  World(st, hp, [w.o EXCEPT !.written = <<>>])

\* a faulty exponent with the zooms exchanged; ThinningOnlyOnZoomOut tells it
\* from zoomChangeExponent
zoomChangeExponent_reversed(previousViewportZoom, zoom) ==
  (zoom - previousViewportZoom) * 4

\* viewportZoomChangeFactor is 2 ** zoomChangeExponent
zoomChangeExponent(previousViewportZoom, zoom) ==
  (previousViewportZoom - zoom) * 4

\* the uniforms _runTransformFeedback passes to the shader
Uniforms(st, p, vp, t, seed) ==
  LET e == zoomChangeExponent(st.previousViewportZoom, vp.zoom)
  IN  [bitmapTexture |-> st.texture,
       bitmapTextureNext |-> IF st.textureNext = Undef THEN st.texture
                             ELSE st.textureNext,
       blend |-> p.blend,
       viewportBounds |-> getViewportBounds(vp),
       viewportZoomChangeFactor |-> [num |-> Pow2(e), den |-> Pow2(-e)],
       imageUnscale |-> IF p.imageUnscale = NullUnscale THEN <<0, 0>>
                        ELSE p.imageUnscale,
       bounds |-> p.bounds,
       numParticles |-> p.numParticles,
       maxAge |-> p.maxAge,
       speedFactor |-> [num |-> p.speedFactor, shift |-> vp.zoom + 7],
       time |-> t,
       seed |-> seed]

\* transform.run: one shader invocation per vertex, reading the buffer bound
\* as sourcePosition and writing the buffer bound as targetPosition
TransformRun(hp, xf, bitmap) ==
  LET vertexCount == hp[xf].data[1]
      src == hp[hp[xf].src].data
      old == hp[hp[xf].dst].data
      out(i) == main(i - 1, src[i], bitmap)
  IN  [hp EXCEPT ![hp[xf].dst].data =
         [i \in 1 .. Len(old) |->
            IF i <= vertexCount /\ i <= Len(src) /\ out(i) # NoWrite
            THEN out(i)[1] ELSE old[i]]]

\* a faulty copy that ignores the destination offset; CohortInvariant tells it
\* from copyBufferToBuffer
copyBufferToBuffer_noOffset(hp, sourceBuffer, destinationBuffer, destinationOffset, size) ==
  [hp EXCEPT ![destinationBuffer].data =
     [i \in 1 .. Len(hp[destinationBuffer].data) |->
        IF i <= size /\ i <= Len(hp[sourceBuffer].data)
        THEN hp[sourceBuffer].data[i] ELSE hp[destinationBuffer].data[i]]]

\* copyBufferToBuffer of size records from the start of sourceBuffer to
\* destinationOffset records into destinationBuffer
CopyInRange(hp, sourceBuffer, destinationBuffer, destinationOffset, size) ==
  /\ size <= Len(hp[sourceBuffer].data)
  /\ destinationOffset + size <= Len(hp[destinationBuffer].data)

copyBufferToBuffer(hp, sourceBuffer, destinationBuffer, destinationOffset, size) ==
  IF ~CopyInRange(hp, sourceBuffer, destinationBuffer, destinationOffset, size)
  THEN hp
  ELSE [hp EXCEPT ![destinationBuffer].data =
         [i \in 1 .. Len(hp[destinationBuffer].data) |->
            IF destinationOffset < i /\ i <= destinationOffset + size
            THEN hp[sourceBuffer].data[i - destinationOffset]
            ELSE hp[destinationBuffer].data[i]]]

\* a faulty comparison that never recognises the recorded time;
\* RepeatedStepIdempotent tells it from SameTick
SameTick_never(t, previousTime) == FALSE

\* the tick is skipped when the time is the recorded one
SameTick(t, previousTime) == t = previousTime

FirstN(seq, n) == [i \in 1 .. Min2(n, Len(seq)) |-> seq[i]]

\* a faulty tick that records the zoom but not the time; TickAtomic tells it
\* from Recorded
Recorded_zoomOnly(st, vp, t) == [st EXCEPT !.previousViewportZoom = vp.zoom]

\* the state fields a tick records
Recorded(st, vp, t) ==
  [st EXCEPT !.previousViewportZoom = vp.zoom, !.previousTime = t]

\* a faulty rebinding that moves the input attribute and leaves the feedback
\* output where it was; BuffersExchanged tells it from Rebind
Rebind_inputOnly(hp, xf, input, output) == [hp EXCEPT ![xf].src = input]

\* transform.model.setAttributes({sourcePosition}) and
\* transform.transformFeedback.setBuffers({targetPosition})
Rebind(hp, xf, input, output) ==
  [hp EXCEPT ![xf].src = input, ![xf].dst = output]

RunGuard(st) == st.initialized

_runTransformFeedback(w, p, vp, t, seed) ==
  IF ~RunGuard(w.st) THEN w
  ELSE IF SameTick(t, w.st.previousTime) THEN w
  ELSE
    LET st == w.st
        refs == {st.transform, st.sourcePositions, st.targetPositions}
        ok == \A r \in refs : Live(w.hp, r)
        o1 == Touch(w.o, w.hp, refs)
    IN  IF ~ok THEN World(st, w.hp, o1)
        ELSE
          LET bitmap == Uniforms(st, p, vp, t, seed)
              hp1 == TransformRun(w.hp, st.transform, bitmap)
              hp2 == copyBufferToBuffer(hp1, st.sourcePositions, st.targetPositions,
                                        p.numParticles, st.numAgedInstances)
              hp3 == Rebind(hp2, st.transform, st.targetPositions, st.sourcePositions)
              st1 == [st EXCEPT !.sourcePositions = st.targetPositions,
                                !.targetPositions = st.sourcePositions]
              cohort0 == FirstN(hp1[w.hp[st.transform].dst].data, p.numParticles)
              o2 == [o1 EXCEPT
                       !.written = FirstN(<<cohort0>> \o @, p.maxAge + 1),
                       !.copyOutOfRange = @ \/ ~CopyInRange(hp1, st.sourcePositions,
                                             st.targetPositions, p.numParticles,
                                             st.numAgedInstances)]
          IN  World(Recorded(st1, vp, t), hp3, o2)

\* a faulty reset that zeroes the source buffer only; ClearResetsParticles
\* tells it from _resetTransformFeedback
_resetTransformFeedback_sourceOnly(w) ==
  IF ~w.st.initialized THEN w
  ELSE World(w.st,
             [w.hp EXCEPT ![w.st.sourcePositions].data =
                [i \in 1 .. w.st.numInstances |-> Sentinel]],
             [w.o EXCEPT !.written = <<>>])

_resetTransformFeedback(w) ==
  IF ~w.st.initialized THEN w
  ELSE
    LET st == w.st
        refs == {st.sourcePositions, st.targetPositions}
        zeros == [i \in 1 .. st.numInstances |-> Sentinel]
    IN  IF \E r \in refs : ~Live(w.hp, r)
        THEN World(st, w.hp, Touch(w.o, w.hp, refs))
        ELSE World(st,
                   [w.hp EXCEPT ![st.sourcePositions].data = zeros,
                                ![st.targetPositions].data = zeros],
                   [w.o EXCEPT !.written = <<>>])

step(w, p, vp, t, seed) == _runTransformFeedback(w, p, vp, t, seed)

\* ------------------------------------------------------------------------
\* Actions
\* ------------------------------------------------------------------------
Here == World(state, heap, obs)

\* every operation ends by installing the world it computed
Install(w) ==
  /\ state' = w.st
  /\ heap' = w.hp
  /\ obs' = w.o

\* image && typeof image !== "string"
IsTexture(img) == img # Null /\ img # Url

\* a faulty test of path (B) that also rebuilds when the image changes;
\* TextureUpdateKeepsParticles tells it from StructureChanged
StructureChanged_orImage(p, oldProps) ==
  \/ p.numParticles # oldProps.numParticles
  \/ p.maxAge # oldProps.maxAge
  \/ p.width # oldProps.width
  \/ p.image # oldProps.image

\* the test of path (B): a structural parameter differs from the old props
StructureChanged(p, oldProps) ==
  \/ p.numParticles # oldProps.numParticles
  \/ p.maxAge # oldProps.maxAge
  \/ p.width # oldProps.width

\* updateState({props, oldProps}): this.props is already the new props
updateStateBody(w, p, oldProps) ==
  IF Falsy(p.numParticles) \/ Falsy(p.maxAge) \/ Falsy(p.width)
  THEN _deleteTransformFeedback(w)
  ELSE IF ~w.st.initialized
  THEN IF IsTexture(p.image) THEN _setupTransformFeedback(w, p) ELSE w
  ELSE IF StructureChanged(p, oldProps)
  THEN _setupTransformFeedback(w, p)
  ELSE
    LET st1 == IF IsTexture(p.image) /\ p.image # oldProps.image
               THEN [w.st EXCEPT !.texture = p.image] ELSE w.st
        st2 == IF IsTexture(p.imageNext) /\ p.imageNext # oldProps.imageNext
               THEN [st1 EXCEPT !.textureNext = p.imageNext] ELSE st1
    IN  [w EXCEPT !.st = st2]

updateState(p) ==
  /\ ~finalized
  /\ props' = p
  /\ LET w == updateStateBody(Here, p, props)
         waits == ~state.initialized /\ ~w.st.initialized /\ ~IsTexture(p.image)
                    /\ ~(Falsy(p.numParticles) \/ Falsy(p.maxAge) \/ Falsy(p.width))
     IN  Install([w EXCEPT !.o.stepsAtTime = 0, !.o.deferred = @ \/ waits])
  /\ UNCHANGED <<scope, timers, time, viewport, finalized, sh, call, app>>

finalizeState ==
  /\ ~finalized
  /\ finalized' = TRUE
  /\ LET w == _deleteTransformFeedback(Here)
     IN  Install([w EXCEPT !.o.stepsAtTime = 0])
  /\ UNCHANGED <<scope, props, timers, time, viewport, sh, call, app>>

\* requestStep(): the new stepRequested flag and the new timers
Truthy(flag) == flag = "true"

requestStep(st, tm, t) ==
  IF Truthy(st.stepRequested) THEN <<st, tm>>
  ELSE <<[st EXCEPT !.stepRequested = "true"], Append(tm, t + TimerDelay)>>

\* a faulty draw that requests a step whatever animate is; DrawSchedulesOnlyAnimated
\* tells it from DrawRequests
DrawRequests_always(p) == TRUE

\* if (animate) this.requestStep()
DrawRequests(p) == p.animate

draw ==
  /\ ~finalized
  /\ IF ~state.initialized
     THEN UNCHANGED <<state, timers, obs, app>>
     ELSE LET refs == {state.sourcePositions, state.targetPositions, state.colors}
              rq == IF DrawRequests(props) THEN requestStep(state, timers, time)
                    ELSE <<state, timers>>
          IN  /\ Len(rq[2]) <= MaxTimers
              /\ state' = rq[1]
              /\ timers' = rq[2]
              /\ obs' = Touch(obs, heap, refs)
  /\ UNCHANGED <<scope, props, heap, time, viewport, finalized, sh, call, app>>

CountStep(o) == [o EXCEPT !.stepsAtTime = Min2(@ + 1, 2)]

\* a direct call of the public step()
stepCall ==
  /\ ~finalized
  /\ \E seed \in SeedSpace(scope) :
       LET w == step(Here, props, viewport, time, seed)
       IN  Install([w EXCEPT !.o = CountStep(@)])
  /\ UNCHANGED <<scope, props, timers, time, viewport, finalized, sh, call, app>>

\* a faulty callback that leaves the flag raised; AnimationNeverStalls tells
\* it from Lowered
Lowered_not(st) == st

\* this.state.stepRequested = false
Lowered(st) == [st EXCEPT !.stepRequested = "false"]

\* the setTimeout callback of requestStep: step(), then the flag is lowered
timerFire ==
  /\ timers # <<>>
  /\ Head(timers) <= time
  /\ timers' = Tail(timers)
  /\ \E seed \in SeedSpace(scope) :
       LET w == step(Here, props, viewport, time, seed)
       IN  Install([w EXCEPT !.st = Lowered(@), !.o = CountStep(@)])
  /\ UNCHANGED <<scope, props, time, viewport, finalized, sh, call, app>>

clear ==
  /\ ~finalized
  /\ Install(_resetTransformFeedback(Here))
  /\ UNCHANGED <<scope, props, timers, time, viewport, finalized, sh, call, app>>

\* the host's timeline advances
advanceTime(d) ==
  /\ time + d <= TimeBound(scope)
  /\ time' = time + d
  /\ obs' = [obs EXCEPT !.stepsAtTime = 0]
  /\ UNCHANGED <<scope, props, state, heap, timers, viewport, finalized, sh, call, app>>

\* the host's camera moves
setViewport(vp) ==
  /\ vp # viewport
  /\ viewport' = vp
  /\ UNCHANGED <<scope, props, state, heap, timers, time, finalized, obs, sh, call, app>>

\* initializeState has run; the host has not yet called updateState
Init ==
  /\ scope \in Scopes
  /\ props \in PropsSpace(scope)
  /\ state = InitState
  /\ heap = [i \in HeapIds |-> Free]
  /\ timers = <<>>
  /\ time = 0
  /\ viewport \in ViewportSpace(scope)
  /\ finalized = FALSE
  /\ obs = InitObs
  /\ sh = <<>>
  /\ call = <<>>
  /\ app = <<>>

Next ==
  \/ \E p \in PropsSpace(scope) : updateState(p)
  \/ finalizeState
  \/ draw
  \/ stepCall
  \/ timerFire
  \/ clear
  \/ \E d \in TimeSteps(scope) : advanceTime(d)
  \/ \E vp \in ViewportSpace(scope) : setViewport(vp)

Spec == Init /\ [][Next]_vars

\* ------------------------------------------------------------------------
\* The shader alone: one invocation of main() on inputs drawn from bounded
\* sets
\* ------------------------------------------------------------------------
ShaderPositions ==
  { Rec(Deg(x), Deg(y), z) : x \in {-175, -10, 0, 10, 35}, y \in {0, 45, 60}, z \in {0, 51} }
    \cup { Rec(Deg(180) - 1, 0, 0) }    \* one unit west of the antimeridian

\* <<texture, textureNext, blend, imageUnscale>>: the rescaled decoding of
\* byte images, the raw decoding of float images (imageUnscale null, and
\* bounds that are not increasing), with texels that tell the two apart
DecodeCases ==
  { <<"T1", "T1", 0, <<-128, 127>> >>, <<"T3", "T3", 0, <<-128, 127>> >>,
    <<"T4", "T4", 0, <<-128, 127>> >>, <<"T1", "T2", 1, <<-128, 127>> >>,
    <<"T1", "T4", 1, <<-128, 127>> >>,
    <<"T4", "T4", 0, NullUnscale>>, <<"T3", "T3", 0, NullUnscale>>,
    <<"T4", "T4", 0, <<127, -128>> >>, <<"T3", "T3", 0, <<127, -128>> >> }

ShaderUniforms ==
  { Uniforms([previousViewportZoom |-> pz, texture |-> d[1], textureNext |-> d[2]],
             MkProps(2, 3, 1, d[1], d[2], FALSE, bnds, 1, d[3], d[4]),
             [zoom |-> z, box |-> b], t, 1) :
      pz \in Zooms, z \in Zooms, d \in DecodeCases, bnds \in {Globe, Region},
      b \in {HomeBox, DateLineBox}, t \in {12, 36, 40} }

ShaderInit ==
  /\ scope = "shader"
  /\ props = MkProps(2, 3, 1, Null, Null, FALSE, Globe, 1, 0, <<-128, 127>>)
  /\ state = InitState
  /\ heap = [i \in HeapIds |-> Free]
  /\ timers = <<>>
  /\ time = 0
  /\ viewport = [zoom |-> 0, box |-> HomeBox]
  /\ finalized = FALSE
  /\ obs = InitObs
  /\ call = <<>>
  /\ sh \in { [gl_VertexID |-> v, sourcePosition |-> r, bitmap |-> u,
               done |-> FALSE, targetPosition |-> <<>>,
               colorScheme |-> Undef, color |-> <<>>] :
                v \in 0 .. 1, r \in ShaderPositions, u \in ShaderUniforms }
  /\ app = <<>>

ShaderRun ==
  /\ ~sh.done
  /\ sh' = [sh EXCEPT !.done = TRUE,
                      !.targetPosition = main(sh.gl_VertexID, sh.sourcePosition, sh.bitmap)]
  /\ UNCHANGED <<scope, props, state, heap, timers, time, viewport, finalized, obs,
               call, app>>

\* the names the application passes as colorScheme
ColorSchemes == {"nullschool", "amp"}

\* the segment written by main() is drawn by a layer created with one of the
\* colour schemes; a segment with an end at DROP_POSITION is discarded
ShaderDraw ==
  /\ sh.done /\ sh.color = <<>>
  /\ XY(sh.sourcePosition) # DROP_POSITION
  /\ XY(sh.targetPosition[1]) # DROP_POSITION
  /\ \E cs \in ColorSchemes :
       sh' = [sh EXCEPT !.colorScheme = cs,
                        !.color = <<DECKGL_FILTER_COLOR(cs, sh.targetPosition[1].z)>>]
  /\ UNCHANGED <<scope, props, state, heap, timers, time, viewport, finalized, obs,
               call, app>>

ShaderNext == ShaderRun \/ ShaderDraw

ShaderSpec == ShaderInit /\ [][ShaderNext]_vars

\* ------------------------------------------------------------------------
\* The host utilities alone: one call of wrapLongitude or wrapBounds on
\* arguments drawn from bounded sets
\* ------------------------------------------------------------------------
\* longitudes every five degrees over MaxTurns turns either way, and their
\* neighbours one unit away
Longitudes ==
  { Deg(5 * k) + e : k \in (0 - (72 * MaxTurns + 2)) .. (72 * MaxTurns + 2),
                     e \in {-1, 0, 1} }

Minimums ==
  {<<>>} \cup { <<Deg(m) + e>> : m \in {-720, -180, -170, 0, 170, 180, 200, 540},
                                 e \in {0, 1} }

BoxLongitudes == {-540, -360, -200, -180, -170, -10, 0, 10, 170, 180, 190, 350, 360, 540}

BoxLatitudes == {<<-10, 10>>, <<-95, 95>>, <<-90, 90>>, <<95, 100>>, <<-100, -95>>, <<0, 0>>}

Boxes ==
  { <<Deg(a), Deg(lat[1]), Deg(b) + e, Deg(lat[2])>> :
      a \in BoxLongitudes, b \in BoxLongitudes, lat \in BoxLatitudes, e \in {-1, 0, 1} }

MkCall(fn, lng, minLng, bounds) ==
  [fn |-> fn, lng |-> lng, minLng |-> minLng, bounds |-> bounds,
   done |-> FALSE, result |-> <<>>]

UtilityInit ==
  /\ scope = "utility"
  /\ props = MkProps(2, 3, 1, Null, Null, FALSE, Globe, 1, 0, <<-128, 127>>)
  /\ state = InitState
  /\ heap = [i \in HeapIds |-> Free]
  /\ timers = <<>>
  /\ time = 0
  /\ viewport = [zoom |-> 0, box |-> HomeBox]
  /\ finalized = FALSE
  /\ obs = InitObs
  /\ sh = <<>>
  /\ call \in { MkCall("wrapLongitude", lng, m, Globe) : lng \in Longitudes, m \in Minimums }
              \cup { MkCall("wrapBounds", 0, <<>>, b) : b \in Boxes }
  /\ app = <<>>

wrapLongitudeCall ==
  /\ call.fn = "wrapLongitude" /\ ~call.done
  /\ call' = [call EXCEPT !.done = TRUE,
                          !.result = <<wrapLongitude(call.lng, call.minLng)>>]
  /\ UNCHANGED <<scope, props, state, heap, timers, time, viewport, finalized, obs, sh, app>>

wrapBoundsCall ==
  /\ call.fn = "wrapBounds" /\ ~call.done
  /\ call' = [call EXCEPT !.done = TRUE, !.result = <<wrapBounds(call.bounds)>>]
  /\ UNCHANGED <<scope, props, state, heap, timers, time, viewport, finalized, obs, sh, app>>

UtilityNext == wrapLongitudeCall \/ wrapBoundsCall

UtilitySpec == UtilityInit /\ [][UtilityNext]_vars

\* ------------------------------------------------------------------------
\* Vocabulary of the properties
\* ------------------------------------------------------------------------
StepTaken == stepCall \/ timerFire

\* a step() that passes both early returns of _runTransformFeedback
ExecutedTick == StepTaken /\ state.initialized /\ time # state.previousTime

UpdateTaken == \E p \in PropsSpace(scope) : updateState(p)

\* the records of the buffer a reference names
DataOf(hp, ref) == hp[ref].data

\* record p (1-based) of cohort k of a buffer holding cohorts of n records
Cohort(data, k, n, p) == data[k * n + p]

AllSentinel(data) == \A i \in 1 .. Len(data) : data[i] = Sentinel

LiveObjects(hp) == { i \in HeapIds : hp[i].live }

ValidStructure(p) ==
  /\ p.numParticles # 0 /\ p.numParticles # Unset
  /\ p.maxAge # 0 /\ p.maxAge # Unset
  /\ p.width # 0 /\ p.width # Unset

\* some lift of the longitude by whole turns lies in the box
InBox(x, y, box) ==
  /\ \E k \in {-1, 0, 1} : box[1] <= x + k * Deg(360) /\ x + k * Deg(360) <= box[3]
  /\ box[2] <= y /\ y <= box[4]

\* this.state without the stepRequested flag
Core(st) == [st EXCEPT !.stepRequested = "false"]

\* the image prop is a URL string or null
Placeholder(img) == img = Null \/ img = Url

\* floor(time / (1000 / FPS))
TickId(t) == (t * FPS) \div 1000

\* ------------------------------------------------------------------------
\* C1  In every ready state, for every cohort k and slot p, record
\* k*numParticles+p of the source buffer is the value the transform wrote for
\* slot p exactly k executed ticks earlier, or the sentinel when fewer than
\* k+1 ticks have executed since the buffers were zeroed: data moves from
\* cohort k to cohort k+1 per tick and leaves the buffer after cohort maxAge-1.
\* ------------------------------------------------------------------------
CohortInvariant ==
  state.initialized =>
    LET n == props.numParticles
        data == DataOf(heap, state.sourcePositions)
    IN  /\ Len(data) = n * props.maxAge
        /\ \A k \in 0 .. (props.maxAge - 1) : \A p \in 1 .. n :
             Cohort(data, k, n, p) =
               IF k < Len(obs.written) THEN obs.written[k + 1][p] ELSE Sentinel

\* a respawned record has reached the oldest cohort of three
CohortShifted ==
  /\ state.initialized
  /\ props.maxAge = 3
  /\ Len(obs.written) = 3
  /\ \E p \in 1 .. props.numParticles :
       /\ Cohort(DataOf(heap, state.sourcePositions), 2, props.numParticles, p) # Sentinel
       /\ Cohort(DataOf(heap, state.sourcePositions), 1, props.numParticles, p)
            # Cohort(DataOf(heap, state.sourcePositions), 2, props.numParticles, p)

\* ------------------------------------------------------------------------
\* C2  At most one step timer scheduled by requestStep is pending at any time.
\* ------------------------------------------------------------------------
AtMostOneTimerPending == Len(timers) <= 1

\* ------------------------------------------------------------------------
\* C3  A step that runs while the layer is uninitialized changes no buffer,
\* no binding and no role, and no operation ever touches a destroyed object.
\* ------------------------------------------------------------------------
NoUseAfterDestroy ==
  [][ /\ ~obs'.usedDestroyed
      /\ (StepTaken /\ ~state.initialized =>
            heap' = heap /\ Core(state') = Core(state)) ]_vars

\* a timer callback ran step() after finalizeState
LateStepRan == finalized /\ ~state.initialized /\ obs.stepsAtTime > 0

\* ------------------------------------------------------------------------
\* C4  The second of two step() calls at an unchanged time changes neither
\* position buffer, nor the source/target roles, nor the recorded previous
\* zoom and time.
\* ------------------------------------------------------------------------
RepeatedStepIdempotent ==
  [][ StepTaken /\ obs.stepsAtTime >= 1 =>
        /\ heap' = heap
        /\ state'.sourcePositions = state.sourcePositions
        /\ state'.targetPositions = state.targetPositions
        /\ state'.previousViewportZoom = state.previousViewportZoom
        /\ state'.previousTime = state.previousTime ]_vars

\* step() ran twice at one time, the first call having executed a tick
SteppedTwice ==
  /\ state.initialized
  /\ obs.stepsAtTime = 2
  /\ Len(obs.written) > 0
  /\ state.previousTime = time

\* ------------------------------------------------------------------------
\* C5  At most one tick executes per tick interval of 1000/FPS ms: a step
\* whose time falls in the interval of the previous executed tick is skipped.
\* ------------------------------------------------------------------------
OneTickPerInterval ==
  [][ ExecutedTick /\ Len(obs.written) > 0 =>
        TickId(time) # TickId(state.previousTime) ]_vars

\* ------------------------------------------------------------------------
\* C6  The target record of a youngest-cohort invocation is the outcome of
\* the first matching rule in the order respawn, zoom-out thinning, age-based
\* drop, out-of-domain hold, out-of-viewport drop, no-data drop, advect; a
\* particle that is out of domain and out of viewport is held, not dropped.
\* ------------------------------------------------------------------------
ShIndex == sh.gl_VertexID % sh.bitmap.numParticles

ShThinned ==
  LET f == sh.bitmap.viewportZoomChangeFactor
  IN  f.den = 1 /\ f.num > 1 /\ ShIndex % f.num # 0

ShAged ==
  ShIndex % (sh.bitmap.maxAge + 2) = sh.bitmap.time % (sh.bitmap.maxAge + 2)

ShInDomain == InBox(sh.sourcePosition.x, sh.sourcePosition.y, sh.bitmap.bounds)

ShInViewport ==
  InBox(sh.sourcePosition.x, sh.sourcePosition.y, sh.bitmap.viewportBounds)

\* channel ch of the blended sample, as a numerator over ChanDen
ShSample(ch) ==
  TexelOf(sh.bitmap.bitmapTexture)[ch] * (BlendDen - sh.bitmap.blend)
    + TexelOf(sh.bitmap.bitmapTextureNext)[ch] * sh.bitmap.blend

\* the unscale bounds are increasing: the image holds rescaled bytes
ShScaled == sh.bitmap.imageUnscale[1] < sh.bitmap.imageUnscale[2]

ShHasData ==
  IF ShScaled THEN ShSample("a") >= ChanDen
  ELSE ~(TexelOf(sh.bitmap.bitmapTexture).nan
           \/ TexelOf(sh.bitmap.bitmapTextureNext).nan)

FirstMatchingRuleWins ==
  sh # <<>> /\ sh.done =>
    LET out == sh.targetPosition[1]
        src == sh.sourcePosition
    IN  /\ Len(sh.targetPosition) = 1
        /\ IF XY(src) = DROP_POSITION
             THEN out.z = 0 /\ InBox(out.x, out.y, sh.bitmap.viewportBounds)
           ELSE IF ShThinned THEN out = Sentinel
           ELSE IF ShAged THEN out = Sentinel
           ELSE IF ~ShInDomain THEN out = src
           ELSE IF ~ShInViewport THEN out = Sentinel
           ELSE IF ~ShHasData THEN out = Sentinel
           ELSE out = advect(src, sh.bitmap) /\ XY(out) # XY(src) /\ out # Sentinel

\* a particle out of domain and out of viewport was held
HeldOutsideViewport ==
  /\ sh # <<>> /\ sh.done
  /\ XY(sh.sourcePosition) # DROP_POSITION
  /\ ~ShThinned /\ ~ShAged /\ ~ShInDomain /\ ~ShInViewport
  /\ sh.targetPosition = <<sh.sourcePosition>>

\* ------------------------------------------------------------------------
\* C7  A tick executed on buffers that hold only sentinels leaves every
\* youngest-cohort record at a position inside the viewport bounds with speed
\* zero, and every record of the older cohorts at the sentinel.
\* ------------------------------------------------------------------------
FirstTickRespawns ==
  [][ /\ ExecutedTick
      /\ AllSentinel(DataOf(heap, state.sourcePositions))
      /\ AllSentinel(DataOf(heap, state.targetPositions))
      => LET data == DataOf(heap', state'.sourcePositions)
             vb == getViewportBounds(viewport)
         IN  \A i \in 1 .. Len(data) :
               IF i <= props.numParticles
               THEN InBox(data[i].x, data[i].y, vb) /\ data[i].z = 0
               ELSE data[i] = Sentinel ]_vars

\* one tick has run on zeroed buffers of three cohorts
RespawnedOnce ==
  /\ state.initialized
  /\ props.maxAge = 3
  /\ Len(obs.written) = 1
  /\ LET data == DataOf(heap, state.sourcePositions)
     IN  /\ \A i \in 1 .. props.numParticles : data[i] # Sentinel
         /\ \A i \in (props.numParticles + 1) .. Len(data) : data[i] = Sentinel

\* ------------------------------------------------------------------------
\* C8  (as stated) A youngest-cohort record whose position lies outside the
\* field domain keeps its position over an executed tick.
\* ------------------------------------------------------------------------
OutsideDomain(r, p) == XY(r) # DROP_POSITION /\ ~InBox(r.x, r.y, p.bounds)

ThinnedNow(i) ==
  /\ state.previousViewportZoom > viewport.zoom
  /\ (i - 1) % Pow2((state.previousViewportZoom - viewport.zoom) * 4) # 0

\* slot i (1-based) is selected by the age-based drop on this tick
AgedNow(i) == (i - 1) % (props.maxAge + 2) = time % (props.maxAge + 2)

InvalidParametersIdle ==
  [][ /\ (UpdateTaken /\ ~ValidStructure(props') =>
            /\ ~state'.initialized
            /\ LiveObjects(heap') = {}
            /\ state'.sourcePositions = NoRef /\ state'.targetPositions = NoRef
            /\ state'.colors = NoRef /\ state'.transform = NoRef
            /\ ~obs'.errorRaised)
      /\ (~state.initialized /\ (draw \/ StepTaken \/ clear) =>
            /\ heap' = heap
            /\ Core(state') = Core(state)
            /\ (draw => timers' = timers))
      /\ (~state.initialized /\ state'.initialized =>
            UpdateTaken /\ ValidStructure(props') /\ ~Placeholder(props'.image)) ]_vars

\* a ready layer was torn down by an update with an invalid parameter
TornDownByUpdate ==
  /\ ~finalized
  /\ ~ValidStructure(props)
  /\ ~state.initialized
  /\ state.texture # Undef
  /\ LiveObjects(heap) = {}

\* ------------------------------------------------------------------------
\* C10  An updateState that sees a placeholder image (a URL string or null)
\* with valid structural parameters creates no GPU object and leaves an
\* uninitialized layer uninitialized; a step of an uninitialized
\* layer whose image is a placeholder runs no transform; an updateState of an
\* uninitialized layer that sees a loaded texture and valid structural
\* parameters sets the layer up.
\* ------------------------------------------------------------------------
SetupDeferredUntilTexture ==
  [][ /\ (UpdateTaken /\ Placeholder(props'.image) /\ ValidStructure(props') =>
            /\ \A i \in LiveObjects(heap') : heap'[i] = heap[i]
            /\ (~state.initialized => ~state'.initialized /\ heap' = heap))
      /\ (~state.initialized /\ Placeholder(props.image) /\ StepTaken =>
            heap' = heap /\ obs'.written = obs.written /\ ~state'.initialized)
      /\ (UpdateTaken /\ ~state.initialized /\ ~Placeholder(props'.image)
            /\ ValidStructure(props') =>
              /\ state'.initialized
              /\ state'.texture = props'.image
              /\ Cardinality(LiveObjects(heap')) = 4
              /\ Live(heap', state'.sourcePositions)
              /\ Live(heap', state'.targetPositions)
              /\ Live(heap', state'.colors)
              /\ Live(heap', state'.transform)
              /\ AllSentinel(DataOf(heap', state'.sourcePositions))) ]_vars

\* the layer was set up by a texture that arrived after a placeholder
SetUpAfterPlaceholder ==
  /\ state.initialized
  /\ obs.deferred

\* ------------------------------------------------------------------------
\* C11  In every ready state whose imageNext prop is a placeholder, the next
\* texture handed to the transform is the current primary texture.
\* ------------------------------------------------------------------------
NextFallsBackToPrimary ==
  state.initialized /\ Placeholder(props.imageNext) =>
    Uniforms(state, props, viewport, time, 0).bitmapTextureNext = state.texture

\* ------------------------------------------------------------------------
\* C12  An updateState of a ready layer whose numParticles, maxAge and width
\* equal the previous props creates and destroys no GPU object and leaves
\* every record, both roles and the recorded zoom and time unchanged; an
\* updateState of a ready layer that changes any of these does so only when
\* one of the three differs from the previous props.
\* ------------------------------------------------------------------------
SameStructure(p, q) ==
  p.numParticles = q.numParticles /\ p.maxAge = q.maxAge /\ p.width = q.width

Particles(st) ==
  [initialized |-> st.initialized, numInstances |-> st.numInstances,
   numAgedInstances |-> st.numAgedInstances,
   sourcePositions |-> st.sourcePositions, targetPositions |-> st.targetPositions,
   colors |-> st.colors, transform |-> st.transform,
   previousViewportZoom |-> st.previousViewportZoom,
   previousTime |-> st.previousTime]

TextureUpdateKeepsParticles ==
  [][ UpdateTaken /\ state.initialized =>
        /\ (SameStructure(props', props) =>
              heap' = heap /\ Particles(state') = Particles(state))
        /\ (heap' # heap \/ Particles(state') # Particles(state) =>
              ~SameStructure(props', props)) ]_vars

\* the primary texture changed under a ready layer that holds particles
TextureSwitchedInPlace ==
  /\ state.initialized
  /\ state.texture = "T3" /\ state.textureNext = "T1"
  /\ Len(obs.written) > 0
  /\ ~AllSentinel(DataOf(heap, state.sourcePositions))

\* ------------------------------------------------------------------------
\* C13  The live GPU objects are exactly the two position buffers, the colour
\* buffer and the transform of the current set when the layer is ready, and
\* none when it is not: no object of an old set outlives a teardown or a
\* rebuild.
\* ------------------------------------------------------------------------
OneResourceSet ==
  LiveObjects(heap) =
    IF state.initialized
    THEN {state.sourcePositions, state.targetPositions, state.colors, state.transform}
    ELSE {}

\* a new set was built while a timer of the old set was still pending
RebuiltWhileTimerPending ==
  /\ state.initialized
  /\ timers # <<>>
  /\ state.stepRequested = "false"
  /\ Cardinality(LiveObjects(heap)) = 4

\* ------------------------------------------------------------------------
\* C14  A step of a ready layer at a time other than the recorded one runs
\* the transform, shifts the cohorts, swaps the roles and the transform's
\* bindings and records zoom and time; any other step changes no GPU object
\* and no state field but the stepRequested flag.
\* ------------------------------------------------------------------------
TickAtomic ==
  [][ StepTaken =>
        IF state.initialized /\ time # state.previousTime
        THEN LET n == props.numParticles
                 old == DataOf(heap, state.sourcePositions)
                 new == DataOf(heap', state'.sourcePositions)
             IN  /\ state'.sourcePositions = state.targetPositions
                 /\ state'.targetPositions = state.sourcePositions
                 /\ heap'[state.transform].src = state.targetPositions
                 /\ heap'[state.transform].dst = state.sourcePositions
                 /\ state'.previousTime = time
                 /\ state'.previousViewportZoom = viewport.zoom
                 /\ Len(obs'.written) >= 1
                 /\ \A i \in 1 .. Len(new) :
                      new[i] = IF i <= n THEN obs'.written[1][i] ELSE old[i - n]
                 /\ DataOf(heap', state'.targetPositions) = old
        ELSE heap' = heap /\ Core(state') = Core(state) ]_vars

\* a tick ran after the camera zoomed in
TickRecordedZoom ==
  /\ state.initialized
  /\ time > 0 /\ state.previousTime = time
  /\ viewport.zoom > 0 /\ state.previousViewportZoom = viewport.zoom
  /\ Len(obs.written) > 0

\* ------------------------------------------------------------------------
\* C15  clear() of a ready layer sets every record of both position buffers
\* to the sentinel and changes neither another GPU object nor the state;
\* clear() of a layer that is not ready changes nothing.
\* ------------------------------------------------------------------------
ClearResetsParticles ==
  [][ clear =>
        IF state.initialized
        THEN /\ state' = state
             /\ Len(DataOf(heap', state.sourcePositions)) = state.numInstances
             /\ Len(DataOf(heap', state.targetPositions)) = state.numInstances
             /\ AllSentinel(DataOf(heap', state.sourcePositions))
             /\ AllSentinel(DataOf(heap', state.targetPositions))
             /\ \A i \in HeapIds \ {state.sourcePositions, state.targetPositions} :
                  heap'[i] = heap[i]
             /\ heap'[state.sourcePositions].live /\ heap'[state.targetPositions].live
        ELSE state' = state /\ heap' = heap ]_vars

\* the particles were cleared after at least one tick
ClearedAfterTick ==
  /\ state.initialized
  /\ state.previousTime > 0
  /\ obs.written = <<>>
  /\ AllSentinel(DataOf(heap, state.sourcePositions))
  /\ AllSentinel(DataOf(heap, state.targetPositions))

\* ------------------------------------------------------------------------
\* C16  (as stated) wrapLongitude(lng) with no minimum lies in (-180, 180];
\* wrapLongitude(185) = -175, wrapLongitude(-185) = 175, wrapLongitude(0) = 0.
\* ------------------------------------------------------------------------
Wrapped1 == call # <<>> /\ call.fn = "wrapLongitude" /\ call.done /\ call.minLng = <<>>

WrapExamples ==
  /\ (call.lng = Deg(185) => call.result[1] = Deg(-175))
  /\ (call.lng = Deg(-185) => call.result[1] = Deg(175))
  /\ (call.lng = 0 => call.result[1] = 0)

WrappedOpenBelow ==
  Wrapped1 =>
    /\ Deg(-180) < call.result[1] /\ call.result[1] <= Deg(180)
    /\ WrapExamples

\* C16  (amended) wrapLongitude(lng) with no minimum lies in [-180, 180) and
\* differs from lng by a whole number of turns; wrapLongitude(185) = -175,
\* wrapLongitude(-185) = 175, wrapLongitude(0) = 0.
WrappedIntoTurn ==
  Wrapped1 =>
    /\ Deg(-180) <= call.result[1] /\ call.result[1] < Deg(180)
    /\ \E k \in (0 - (MaxTurns + 2)) .. (MaxTurns + 2) :
         call.result[1] = call.lng + k * Deg(360)
    /\ WrapExamples

\* 180 was wrapped to -180
WrappedAntimeridian ==
  Wrapped1 /\ call.lng = Deg(180) /\ call.result = <<Deg(-180)>>

\* ------------------------------------------------------------------------
\* C17  (as stated) wrapLongitude(lng, minLng) is at least minLng for every
\* lng and every minLng; wrapLongitude(-170, 170) = 190.
\* ------------------------------------------------------------------------
Wrapped2 == call # <<>> /\ call.fn = "wrapLongitude" /\ call.done /\ call.minLng # <<>>

WrappedAboveAnyMinimum ==
  Wrapped2 =>
    /\ call.result[1] >= call.minLng[1]
    /\ (call.lng = Deg(-170) /\ call.minLng = <<Deg(170)>> => call.result[1] = Deg(190))

\* C17  (amended) wrapLongitude(lng, minLng) is at least minLng for every lng
\* and every minLng of at most 180, and differs from lng by a whole number of
\* turns; wrapLongitude(-170, 170) = 190.
WrappedAtOrAboveMinimum ==
  Wrapped2 =>
    /\ (call.minLng[1] <= Deg(180) => call.result[1] >= call.minLng[1])
    /\ \E k \in (0 - (MaxTurns + 2)) .. (MaxTurns + 2) :
         call.result[1] = call.lng + k * Deg(360)
    /\ (call.lng = Deg(-170) /\ call.minLng = <<Deg(170)>> => call.result[1] = Deg(190))

\* -170 was lifted to 190 by the minimum 170
LiftedAboveMinimum ==
  Wrapped2 /\ call.lng = Deg(-170) /\ call.minLng = <<Deg(170)>>
           /\ call.result = <<Deg(190)>>

\* ------------------------------------------------------------------------
\* C18  For every box whose longitude span (max - min) is under 360,
\* wrapBounds returns a box whose minimum longitude is at most its maximum
\* longitude; [170, -10, -170, 10] becomes [170, -10, 190, 10].
\* ------------------------------------------------------------------------
BoundsWrapped == call # <<>> /\ call.fn = "wrapBounds" /\ call.done

WrappedBoxNotInverted ==
  BoundsWrapped /\ call.bounds[3] - call.bounds[1] < Deg(360) =>
    /\ call.result[1][1] <= call.result[1][3]
    /\ (call.bounds = <<Deg(170), Deg(-10), Deg(-170), Deg(10)>> =>
          call.result[1] = <<Deg(170), Deg(-10), Deg(190), Deg(10)>>)

\* the box across the antimeridian was wrapped
AntimeridianBoxWrapped ==
  /\ BoundsWrapped
  /\ call.bounds = <<Deg(170), Deg(-10), Deg(-170), Deg(10)>>
  /\ call.result = << <<Deg(170), Deg(-10), Deg(190), Deg(10)>> >>

\* ------------------------------------------------------------------------
\* C19  For every box whose longitude span is 360 or more, wrapBounds returns
\* the minimum longitude -180 and the maximum longitude 180.
\* ------------------------------------------------------------------------
FullSpanCollapses ==
  BoundsWrapped /\ call.bounds[3] - call.bounds[1] >= Deg(360) =>
    call.result[1][1] = Deg(-180) /\ call.result[1][3] = Deg(180)

\* a box of span exactly 360 that does not start at -180 was collapsed
FullTurnBoxCollapsed ==
  /\ BoundsWrapped
  /\ call.bounds[1] = Deg(-10) /\ call.bounds[3] = Deg(350)
  /\ call.result[1][1] = Deg(-180) /\ call.result[1][3] = Deg(180)

\* ------------------------------------------------------------------------
\* C20  (as stated) For every box both latitudes of wrapBounds' result lie in
\* [-90, 90]; wrapBounds([-10, -95, 10, 95]) has latitudes -90 and 90.
\* ------------------------------------------------------------------------
LatitudeExample ==
  call.bounds = <<Deg(-10), Deg(-95), Deg(10), Deg(95)>> =>
    call.result[1][2] = Deg(-90) /\ call.result[1][4] = Deg(90)

LatitudeAlwaysInRange ==
  BoundsWrapped =>
    /\ Deg(-90) <= call.result[1][2] /\ call.result[1][2] <= Deg(90)
    /\ Deg(-90) <= call.result[1][4] /\ call.result[1][4] <= Deg(90)
    /\ LatitudeExample

\* C20  (amended) For every box whose minimum latitude is at most 90 and whose
\* maximum latitude is at least -90, both latitudes of wrapBounds' result lie
\* in [-90, 90]: the minimum is raised to -90 and the maximum lowered to 90;
\* wrapBounds([-10, -95, 10, 95]) has latitudes -90 and 90.
LatitudeClamped ==
  BoundsWrapped /\ call.bounds[2] <= Deg(90) /\ call.bounds[4] >= Deg(-90) =>
    /\ Deg(-90) <= call.result[1][2] /\ call.result[1][2] <= Deg(90)
    /\ Deg(-90) <= call.result[1][4] /\ call.result[1][4] <= Deg(90)
    /\ call.result[1][2] = (IF call.bounds[2] < Deg(-90) THEN Deg(-90) ELSE call.bounds[2])
    /\ call.result[1][4] = (IF call.bounds[4] > Deg(90) THEN Deg(90) ELSE call.bounds[4])
    /\ LatitudeExample

\* the box reaching past both poles was clamped
PolarBoxClamped ==
  /\ BoundsWrapped
  /\ call.bounds = <<Deg(-10), Deg(-95), Deg(10), Deg(95)>>
  /\ call.result = << <<Deg(-10), Deg(-90), Deg(10), Deg(90)>> >>

\* ------------------------------------------------------------------------
\* The colour buffer.  The model keeps the alpha of a record as a numerator
\* over AlphaScale, so that every stored alpha is a whole number.
\* ------------------------------------------------------------------------
AlphaScale == ByteMax * props.maxAge

\* the alpha stored for record i (0-based), as a numerator over AlphaScale
StoredAlpha(i) == heap[state.colors].data[i + 1]

\* the cohort of record i
AgeOf(i) == i \div props.numParticles

\* four times the per-cohort alphas 255, 191.25, 127.5, 63.75
FadeExample == <<1020, 765, 510, 255>>

\* ------------------------------------------------------------------------
\* C21  The alpha stored in the colour buffer at setup for record i is
\* baseAlpha * (1 - age / maxAge) with age = floor(i / numParticles); with
\* maxAge 4 and baseAlpha 255 the stored per-cohort alphas are exactly 255,
\* 191.25, 127.5 and 63.75.
\* ------------------------------------------------------------------------
AlphaStoredOnByteScale ==
  state.initialized =>
    /\ \A i \in 0 .. state.numInstances - 1 :
         StoredAlpha(i) * props.maxAge =
           props.color[4] * (props.maxAge - AgeOf(i)) * AlphaScale
    /\ (props.maxAge = 4 /\ props.color[4] = 255 =>
          \A i \in 0 .. state.numInstances - 1 :
            StoredAlpha(i) * 4 = FadeExample[AgeOf(i) + 1] * AlphaScale)

\* C21  (amended) The alpha stored in the colour buffer at setup for record i
\* is baseAlpha * (1 - age / maxAge) / 255 with age = floor(i / numParticles):
\* the faded alpha is normalised to [0, 1] before it is stored.  With maxAge 4
\* and baseAlpha 255 the stored per-cohort alphas are exactly 1, 0.75, 0.5 and
\* 0.25, which are 255, 191.25, 127.5 and 63.75 divided by 255.
AlphaStoredNormalised ==
  state.initialized =>
    /\ Len(heap[state.colors].data) = state.numInstances
    /\ \A i \in 0 .. state.numInstances - 1 :
         StoredAlpha(i) * props.maxAge * ByteMax =
           props.color[4] * (props.maxAge - AgeOf(i)) * AlphaScale
    /\ (props.maxAge = 4 /\ props.color[4] = 255 =>
          \A i \in 0 .. state.numInstances - 1 :
            StoredAlpha(i) * 4 * ByteMax = FadeExample[AgeOf(i) + 1] * AlphaScale)

\* a layer with four cohorts was set up and its colour buffer filled
FourCohortsFaded ==
  /\ state.initialized
  /\ props.maxAge = 4
  /\ props.color[4] = 255
  /\ state.numInstances = 4
  /\ StoredAlpha(0) = AlphaScale
  /\ StoredAlpha(3) * 4 = AlphaScale

\* ------------------------------------------------------------------------
\* One shader invocation that reaches the sampling of the field: the record
\* is live, no drop rule selects its slot, and it lies inside the domain and
\* the viewport
\* ------------------------------------------------------------------------
ShReachesSampling ==
  /\ sh # <<>> /\ sh.done
  /\ XY(sh.sourcePosition) # DROP_POSITION
  /\ ~ShThinned /\ ~ShAged /\ ShInDomain /\ ShInViewport

\* the velocity the sample stands for, in degrees, as numerators over ChanDen
ShVelocity ==
  LET lo == sh.bitmap.imageUnscale[1]
      hi == sh.bitmap.imageUnscale[2]
  IN  IF ShScaled
      THEN <<lo * ChanDen + (hi - lo) * ShSample("r"),
             lo * ChanDen + (hi - lo) * ShSample("g")>>
      ELSE <<ShSample("r"), ShSample("g")>>

\* a velocity component of ShVelocity in position units
ShUnits(v) == (v * U) \div ChanDen

\* ------------------------------------------------------------------------
\* C22  A live record at zero latitude inside the domain and the viewport,
\* over valid field data of velocity (vx, 0), with a configured speed factor
\* of 1, no zoom change and no age-drop coincidence, is moved by one tick to
\* wrapLongitude(x + vx) with its latitude unchanged (vx = 0.1: x' = x + 0.1).
\* ------------------------------------------------------------------------
AdvectedByVelocity ==
  /\ ShReachesSampling /\ ShHasData
  /\ sh.sourcePosition.y = 0
  /\ ShVelocity[2] = 0
  /\ sh.bitmap.speedFactor.num = 1
  /\ sh.bitmap.viewportZoomChangeFactor.num = sh.bitmap.viewportZoomChangeFactor.den
  => /\ sh.targetPosition[1].x =
          wrapLongitude(sh.sourcePosition.x + ShUnits(ShVelocity[1]), <<>>)
     /\ sh.targetPosition[1].y = sh.sourcePosition.y

\* C22  (amended) A live record at zero latitude inside the domain and the
\* viewport, over valid field data of velocity (vx, 0), with a configured
\* speed factor of 1, no zoom change and no age-drop coincidence, is moved by
\* one tick to wrapLongitude(x + vx / 2^(zoom + 7)) with its latitude
\* unchanged, zoom being the viewport zoom of the tick (vx = 0.1 at zoom 0:
\* x' = x + 0.1 / 128).
AdvectedByZoomScaledVelocity ==
  /\ ShReachesSampling /\ ShHasData
  /\ sh.sourcePosition.y = 0
  /\ ShVelocity[2] = 0
  /\ sh.bitmap.speedFactor.num = 1
  /\ sh.bitmap.viewportZoomChangeFactor.num = sh.bitmap.viewportZoomChangeFactor.den
  => /\ sh.targetPosition[1].x =
          wrapLongitude(sh.sourcePosition.x
                          + ShUnits(ShVelocity[1]) \div Pow2(sh.bitmap.speedFactor.shift),
                        <<>>)
     /\ sh.targetPosition[1].y = sh.sourcePosition.y

\* a record one unit west of the antimeridian was carried east across it
AdvectedAcrossAntimeridian ==
  /\ ShReachesSampling /\ ShHasData
  /\ sh.sourcePosition = Rec(Deg(180) - 1, 0, 0)
  /\ ShVelocity[2] = 0 /\ ShVelocity[1] > 0
  /\ sh.bitmap.viewportZoomChangeFactor.num = sh.bitmap.viewportZoomChangeFactor.den
  /\ sh.targetPosition[1].x < 0
  /\ sh.targetPosition[1].y = 0

\* ------------------------------------------------------------------------
\* C23  The decode mode is selected only by comparing the unscale bounds.
\* When low < high the sample is valid exactly when its blended alpha is at
\* least 1, and its velocity is the linear map of the R and G channels from
\* [0, 1] to [low, high]; otherwise R and G are the velocity unchanged and
\* the sample is no-data exactly when R is NaN.
\* ------------------------------------------------------------------------
DecodeModeByBounds ==
  ShReachesSampling =>
    LET lo == sh.bitmap.imageUnscale[1]
        hi == sh.bitmap.imageUnscale[2]
        out == sh.targetPosition[1]
        src == sh.sourcePosition
        nan == TexelOf(sh.bitmap.bitmapTexture).nan
                 \/ TexelOf(sh.bitmap.bitmapTextureNext).nan
        valid == IF lo < hi THEN ShSample("a") >= ChanDen ELSE ~nan
        vx == IF lo < hi THEN lo * ChanDen + (hi - lo) * ShSample("r")
              ELSE ShSample("r")
        vy == IF lo < hi THEN lo * ChanDen + (hi - lo) * ShSample("g")
              ELSE ShSample("g")
        scaled(v) == (ShUnits(v) * sh.bitmap.speedFactor.num)
                       \div Pow2(sh.bitmap.speedFactor.shift)
    IN  /\ (out = Sentinel) <=> ~valid
        /\ valid => /\ out.x = wrapLongitude(src.x + scaled(vx), <<>>)
                    /\ (src.y = 0 => out.y = scaled(vy))
                    /\ (vy = 0 => out.y = src.y)

\* with unscale bounds that are not increasing, a sample of alpha 0 whose R
\* channel is a number moved its record
RawSampleAdvected ==
  /\ ShReachesSampling
  /\ sh.bitmap.imageUnscale[1] > sh.bitmap.imageUnscale[2]
  /\ ShSample("a") = 0
  /\ sh.targetPosition[1] # Sentinel
  /\ sh.targetPosition[1].x # sh.sourcePosition.x

BuffersExchanged ==
  [][ /\ ExecutedTick =>
           /\ state'.sourcePositions = state.targetPositions
           /\ state'.targetPositions = state.sourcePositions
           /\ LiveObjects(heap') = LiveObjects(heap)
      /\ state'.initialized =>
           /\ heap'[state'.transform].src = state'.sourcePositions
           /\ heap'[state'.transform].dst = state'.targetPositions
           /\ state'.sourcePositions # state'.targetPositions
           /\ heap'[state'.sourcePositions].kind = "positions"
           /\ heap'[state'.targetPositions].kind = "positions"
           /\ heap'[state'.sourcePositions].live
           /\ heap'[state'.targetPositions].live ]_vars

\* two ticks ran on one set of buffers: the roles are back where setup put
\* them and the transform reads the source buffer again
ExchangedTwice ==
  /\ state.initialized
  /\ Len(obs.written) = 2
  /\ state.sourcePositions < state.targetPositions
  /\ heap[state.transform].src = state.sourcePositions
  /\ heap[state.transform].dst = state.targetPositions

\* ------------------------------------------------------------------------
\* C26  A non-sentinel youngest-cohort particle that zoom-out thinning does
\* not remove is force-dropped on a tick exactly when its index modulo
\* maxAge + 2 coincides with the tick value modulo maxAge + 2; the tick value
\* advances by one per executed tick, so that every slot is force-dropped once
\* in every maxAge + 2 consecutive ticks and slots with different residues are
\* dropped on different ticks.
\* ------------------------------------------------------------------------
AgeDropRotatesPerTick ==
  [][ ExecutedTick =>
        LET old == DataOf(heap, state.sourcePositions)
            new == DataOf(heap', state'.sourcePositions)
            m == props.maxAge + 2
        IN  /\ \A i \in 1 .. props.numParticles :
                 XY(old[i]) # DROP_POSITION /\ ~ThinnedNow(i) /\ AgedNow(i) =>
                   new[i] = Sentinel
            /\ Len(obs.written) > 0 => time % m = (state.previousTime + 1) % m ]_vars

\* C26  (amended) A non-sentinel youngest-cohort particle that zoom-out
\* thinning does not remove is force-dropped on a tick exactly when its index
\* modulo maxAge + 2 and the tick value modulo maxAge + 2 differ by less than
\* one (for a whole tick value: coincide).  The tick value is the timeline
\* time of the tick in milliseconds, not a count of executed ticks: a slot is
\* force-dropped on the executed ticks whose time has the slot's residue, and
\* on one tick with a whole time slots with different residues are not both
\* force-dropped.
AgeDropFollowsTime ==
  [][ ExecutedTick =>
        LET old == DataOf(heap, state.sourcePositions)
            new == DataOf(heap', state'.sourcePositions)
            m == props.maxAge + 2
            vb == getViewportBounds(viewport)
            live(i) == XY(old[i]) # DROP_POSITION /\ ~ThinnedNow(i)
            selected(i) == (i - 1) % m = time % m
        IN  \A i \in 1 .. props.numParticles :
              live(i) =>
                /\ selected(i) => new[i] = Sentinel
                /\ ( /\ ~selected(i)
                     /\ state.texture = "T1"
                     /\ InBox(old[i].x, old[i].y, props.bounds)
                     /\ InBox(old[i].x, old[i].y, vb) ) => new[i] # Sentinel
                /\ \A j \in 1 .. props.numParticles :
                     (j - 1) % m # (i - 1) % m /\ selected(i) /\ live(j)
                     /\ state.texture = "T1"
                     /\ InBox(old[j].x, old[j].y, props.bounds)
                     /\ InBox(old[j].x, old[j].y, vb)
                     => new[j] # Sentinel ]_vars

\* a tick at the highest zoom, where nothing is thinned, force-dropped the
\* slot whose residue its time has and advected the other slot
ForceDroppedByTime ==
  /\ state.initialized
  /\ state.previousTime = time
  /\ state.previousViewportZoom = MaxZoom
  /\ Len(obs.written) >= 2
  /\ \E i, j \in 1 .. props.numParticles :
       /\ (i - 1) % (props.maxAge + 2) = time % (props.maxAge + 2)
       /\ obs.written[2][i] # Sentinel
       /\ obs.written[1][i] = Sentinel
       /\ obs.written[2][j] # Sentinel
       /\ obs.written[1][j] # Sentinel

\* ------------------------------------------------------------------------
\* C27  Zoom-out thinning drops a particle only on a tick whose viewport zoom
\* is strictly lower than the zoom recorded by the previous executed tick
\* (zoom-change factor 2^((previousZoom - zoom) * 4) > 1); on a tick whose
\* zoom is equal or higher no particle is dropped by thinning; and every
\* executed tick records its zoom as the new previous zoom.
\* ------------------------------------------------------------------------
ThinningOnlyOnZoomOut ==
  [][ ExecutedTick =>
        LET old == DataOf(heap, state.sourcePositions)
            new == DataOf(heap', state'.sourcePositions)
            vb == getViewportBounds(viewport)
            factor == Pow2((state.previousViewportZoom - viewport.zoom) * 4)
            \* no other rule of the shader drops record i on this tick
            kept(i) == /\ XY(old[i]) # DROP_POSITION
                       /\ (i - 1) % (props.maxAge + 2) # time % (props.maxAge + 2)
                       /\ state.texture = "T1"
                       /\ InBox(old[i].x, old[i].y, props.bounds)
                       /\ InBox(old[i].x, old[i].y, vb)
        IN  /\ state'.previousViewportZoom = viewport.zoom
            /\ \A i \in 1 .. props.numParticles :
                 /\ kept(i) /\ new[i] = Sentinel =>
                      viewport.zoom < state.previousViewportZoom
                 /\ ( /\ XY(old[i]) # DROP_POSITION
                      /\ viewport.zoom < state.previousViewportZoom
                      /\ (i - 1) % factor # 0 ) => new[i] = Sentinel ]_vars

\* a tick at zoom 0 after a tick at a higher zoom dropped a record that no
\* other rule selects and kept the record of slot 0
ThinnedAfterZoomOut ==
  /\ state.initialized
  /\ state.previousTime = time
  /\ state.previousViewportZoom = 0
  /\ state.texture = "T1"
  /\ Len(obs.written) >= 2
  /\ obs.written[1][1] # Sentinel
  /\ \E i \in 2 .. props.numParticles :
       /\ (i - 1) % (props.maxAge + 2) # time % (props.maxAge + 2)
       /\ obs.written[2][i] # Sentinel
       /\ InBox(obs.written[2][i].x, obs.written[2][i].y, getViewportBounds(viewport))
       /\ obs.written[1][i] = Sentinel

\* positions the in-viewport test is probed at, as <<longitude, latitude>>
ProbePositions ==
  { <<Deg(x) + e, Deg(y)>> : x \in {-180, -170, -10, 0, 10, 170, 180}, e \in {-1, 0},
                             y \in {-90, 0, 10, 95} }

\* ------------------------------------------------------------------------
\* C28  The host's wrapLongitude(lng, minLng) and the shader's
\* wrapLongitude(lng, minLng) return the same value for every input, so for
\* every viewport box that wrapBounds produces and every position the
\* shader's in-viewport test accepts exactly when the longitude wrapped into
\* the box's window and the latitude lie inside the box.
\* ------------------------------------------------------------------------
HostAndShaderWrapAgree ==
  /\ Wrapped1 => call.result[1] = shWrapLongitude1(call.lng)
  /\ Wrapped2 => call.result[1] = shWrapLongitude2(call.lng, call.minLng[1])
  /\ BoundsWrapped =>
       LET box == call.result[1]
       IN  \A pos \in ProbePositions :
             isPositionInViewport(pos, [viewportBounds |-> box])
               <=> LET lng == wrapLongitude(pos[1], <<box[1]>>)
                   IN  /\ box[1] <= lng /\ lng <= box[3]
                       /\ box[2] <= pos[2] /\ pos[2] <= box[4]

\* wrapBounds produced a box across the antimeridian and the shader's test
\* accepts a position east of the antimeridian, given in [-180, 180)
AcceptedAcrossAntimeridian ==
  /\ BoundsWrapped
  /\ call.result[1][1] = Deg(170) /\ call.result[1][3] = Deg(190)
  /\ call.result[1][2] <= 0 /\ call.result[1][4] >= 0
  /\ isPositionInViewport(<<Deg(-170) - 1, 0>>, [viewportBounds |-> call.result[1]])
  /\ ~isPositionInViewport(<<Deg(-170) + 1, 0>>, [viewportBounds |-> call.result[1]])

\* the displacement of this invocation's tick along one axis, before the
\* distortion: velocity component v of ShVelocity times the speed factor
ShSpeed(v) ==
  (ShUnits(v) * sh.bitmap.speedFactor.num) \div Pow2(sh.bitmap.speedFactor.shift)

\* ------------------------------------------------------------------------
\* C29  In the advect rule the cos(latitude) distortion factor corrects the
\* longitude: the longitude displacement is the speed-scaled vx times the
\* distortion, the latitude displacement the speed-scaled vy without it.
\* ------------------------------------------------------------------------
DistortionOnLongitude ==
  ShReachesSampling /\ ShHasData =>
    LET src == sh.sourcePosition
        out == sh.targetPosition[1]
    IN  /\ out.x = wrapLongitude(src.x + (ShSpeed(ShVelocity[1]) * CosNum(src.y))
                                           \div CosDen(src.y), <<>>)
        /\ out.y = src.y + ShSpeed(ShVelocity[2])

\* C29  (amended) In the advect rule the cos(latitude) distortion factor
\* scales the latitude displacement: the latitude displacement is the
\* speed-scaled vy times the distortion, the longitude displacement the
\* speed-scaled vx without it.
DistortionOnLatitude ==
  ShReachesSampling /\ ShHasData =>
    LET src == sh.sourcePosition
        out == sh.targetPosition[1]
    IN  /\ out.x = wrapLongitude(src.x + ShSpeed(ShVelocity[1]), <<>>)
        /\ out.y = src.y + (ShSpeed(ShVelocity[2]) * CosNum(src.y))
                             \div CosDen(src.y)

\* at latitude 60, where the factor is one half, a record over a field with
\* vx = vy moved half as far north as east
HalvedNorthwardAtSixty ==
  /\ ShReachesSampling /\ ShHasData
  /\ sh.sourcePosition.y = Deg(60)
  /\ ShVelocity[1] = ShVelocity[2] /\ ShVelocity[1] > 0
  /\ sh.targetPosition[1].y > sh.sourcePosition.y
  /\ 2 * (sh.targetPosition[1].y - sh.sourcePosition.y)
       = sh.targetPosition[1].x - sh.sourcePosition.x

\* ------------------------------------------------------------------------
\* C30  In every ready state both position buffers hold exactly
\* numParticles * maxAge records, and the cohort-shift copy of
\* numParticles * (maxAge - 1) records from offset 0 of the source to offset
\* numParticles of the target never reads or writes past the end of either
\* buffer; with maxAge 1 it copies nothing.
\* ------------------------------------------------------------------------
CopyWithinBuffers ==
  /\ ~obs.copyOutOfRange
  /\ state.initialized =>
       LET source == DataOf(heap, state.sourcePositions)
           target == DataOf(heap, state.targetPositions)
           size == state.numAgedInstances
       IN  /\ Len(source) = props.numParticles * props.maxAge
           /\ Len(target) = props.numParticles * props.maxAge
           /\ size = props.numParticles * (props.maxAge - 1)
           /\ 0 <= size
           /\ size <= Len(source)
           /\ props.numParticles + size <= Len(target)
           /\ (props.maxAge = 1 => size = 0)

\* a tick ran on buffers of a single cohort: the copy moved no record and the
\* buffer holds what the transform wrote
SingleCohortTicked ==
  /\ state.initialized
  /\ props.maxAge = 1
  /\ state.numAgedInstances = 0
  /\ state.previousTime = time /\ time > 0
  /\ Len(obs.written) = 1
  /\ DataOf(heap, state.sourcePositions) = obs.written[1]
  /\ ~AllSentinel(DataOf(heap, state.sourcePositions))

\* the contents or the roles of the position buffers of a ready layer change
PositionsChange ==
  /\ state.initialized /\ state'.initialized
  /\ \/ state'.sourcePositions # state.sourcePositions
     \/ state'.targetPositions # state.targetPositions
     \/ DataOf(heap', state.sourcePositions) # DataOf(heap, state.sourcePositions)
     \/ DataOf(heap', state.targetPositions) # DataOf(heap, state.targetPositions)

\* ------------------------------------------------------------------------
\* C31  draw on an uninitialized layer binds no buffer and schedules no step;
\* when animate is false draw never schedules a step, so the position buffers
\* change only through explicit step or clear calls (a rebuild by updateState
\* replaces them).
\* ------------------------------------------------------------------------
DrawNeverStepsUnanimated ==
  [][ /\ draw /\ ~state.initialized =>
           state' = state /\ timers' = timers /\ heap' = heap /\ obs' = obs
      /\ draw /\ ~props.animate =>
           state' = state /\ timers' = timers /\ heap' = heap
      /\ ~props.animate /\ PositionsChange =>
           stepCall \/ clear \/ UpdateTaken ]_vars

\* C31  (amended) draw on an uninitialized layer binds no buffer and schedules
\* no step; when animate is false draw never schedules a step, so once no
\* step scheduled earlier (while animate was true) is still pending, the
\* position buffers change only through explicit step or clear calls (a
\* rebuild by updateState replaces them).
DrawSchedulesOnlyAnimated ==
  [][ /\ draw /\ ~state.initialized =>
           state' = state /\ timers' = timers /\ heap' = heap /\ obs' = obs
      /\ draw /\ ~props.animate =>
           state' = state /\ timers' = timers /\ heap' = heap
      /\ ~props.animate /\ timers = <<>> /\ PositionsChange =>
           stepCall \/ clear \/ UpdateTaken ]_vars

\* a ready layer with animate false that was stepped explicitly: draw is
\* enabled, no step is scheduled and none is requested
SteppedWithoutAnimation ==
  /\ state.initialized /\ ~finalized
  /\ ~props.animate
  /\ ENABLED draw
  /\ Len(obs.written) >= 1
  /\ timers = <<>>
  /\ state.stepRequested = "false"

\* ------------------------------------------------------------------------
\* C32  After setup or a structural rebuild the first step call executes a
\* tick whatever the timeline time is: it is never skipped as a repeat of a
\* tick that ran before the build or of a tick that never ran.  (No tick has
\* run since the build exactly when the recorded time is the one setup wrote:
\* a tick at that time would itself be skipped.)
\* ------------------------------------------------------------------------
FirstStepExecutes ==
  [][ /\ StepTaken
      /\ state.initialized
      /\ state.previousTime = PreviousTimeAfterSetup
      /\ obs.written = <<>>
      => /\ Len(obs'.written) = 1
         /\ state'.sourcePositions = state.targetPositions ]_vars

\* ------------------------------------------------------------------------
\* The animation loop under a fair host
\* ------------------------------------------------------------------------

\* the last time the timeline reaches within its bound
Horizon(sc) ==
  LET d == CHOOSE x \in TimeSteps(sc) : TRUE
  IN  (TimeBound(sc) \div d) * d

\* The host of the animated layer: it varies numParticles (with rebuilds,
\* teardowns and re-setups) and the images, its camera stands still.
LiveInit ==
  /\ scope = "live"
  /\ props \in PropsSpace(scope)
  /\ state = InitState
  /\ heap = [i \in HeapIds |-> Free]
  /\ timers = <<>>
  /\ time = 0
  /\ viewport \in ViewportSpace(scope)
  /\ finalized = FALSE
  /\ obs = InitObs
  /\ sh = <<>>
  /\ call = <<>>
  /\ app = <<>>

LiveNext ==
  \/ \E p \in PropsSpace(scope) : updateState(p)
  \/ finalizeState
  \/ draw
  \/ stepCall
  \/ timerFire
  \/ clear
  \/ \E d \in TimeSteps(scope) : advanceTime(d)

\* the event loop takes the oldest due callback off its queue: the steps of
\* LiveNext that do so are exactly the steps of timerFire, which is enabled
\* whenever a callback is due
callbackRuns ==
  /\ timers # <<>>
  /\ Head(timers) <= time
  /\ timers' = Tail(timers)

\* A due setTimeout callback runs, the timeline keeps advancing (as far as
\* its bound), and the host draws again after every step: step() ends with
\* setNeedsRedraw(), so a ready layer with a lowered flag has a redraw pending.
LiveSpec ==
  /\ LiveInit
  /\ [][LiveNext]_vars
  /\ WF_timers(callbackRuns)
  /\ WF_vars(\E d \in TimeSteps(scope) : advanceTime(d))
  /\ WF_vars(draw)

\* the callback scheduled by the last requestStep comes due within the bound
\* of the timeline
CallbackComesDue == timers # <<>> /\ timers[Len(timers)] <= Horizon(scope)

SentinelRespawnedOnNextTick ==
  [][ ExecutedTick =>
        LET old == DataOf(heap, state.sourcePositions)
            new == DataOf(heap', state'.sourcePositions)
            vb == getViewportBounds(viewport)
        IN  \A i \in 1 .. props.numParticles :
              XY(old[i]) = DROP_POSITION =>
                /\ InBox(new[i].x, new[i].y, vb)
                /\ new[i].z = 0
                /\ (0 < vb[1] \/ vb[3] < 0 \/ 0 < vb[2] \/ vb[4] < 0) => new[i] # Sentinel
                /\ \A seed \in SeedSpace(scope) :
                     LET r == respawn(i - 1, Uniforms(state, props, viewport, time, seed))
                     IN  XY(r) # DROP_POSITION => new[i] # Sentinel ]_vars

\* a slot dropped by one tick was respawned by the next, on which the age
\* rule selected it
RespawnedDespiteAgeDrop ==
  /\ state.initialized
  /\ state.previousTime = time
  /\ Len(obs.written) >= 3
  /\ \E i \in 1 .. props.numParticles :
       /\ (i - 1) % (props.maxAge + 2) = time % (props.maxAge + 2)
       /\ obs.written[3][i] # Sentinel
       /\ obs.written[2][i] = Sentinel
       /\ obs.written[1][i] # Sentinel

\* ------------------------------------------------------------------------
\* C35  Every drawn segment (record index whose source and target positions
\* both differ from DROP_POSITION) joins the positions the transform wrote for
\* one slot in two consecutive executed ticks, and within one life: a tick
\* makes the segment of cohort 0 from its input position to the position it
\* advected (or held) it to, never from a position before a drop to a
\* respawned one, and the segments then only move to older cohorts.
\* ------------------------------------------------------------------------
SegmentsAligned ==
  state.initialized =>
    LET n == props.numParticles
        src == DataOf(heap, state.sourcePositions)
        tgt == DataOf(heap, state.targetPositions)
    IN  \A k \in 0 .. (props.maxAge - 1) : \A p \in 1 .. n :
          ( /\ XY(Cohort(src, k, n, p)) # DROP_POSITION
            /\ XY(Cohort(tgt, k, n, p)) # DROP_POSITION )
          => /\ k + 2 <= Len(obs.written)
             /\ Cohort(src, k, n, p) = obs.written[k + 1][p]
             /\ Cohort(tgt, k, n, p) = obs.written[k + 2][p]

SegmentsWithinOneLife ==
  [][ /\ SegmentsAligned'
      /\ ExecutedTick =>
            LET old == DataOf(heap, state.sourcePositions)
                src == DataOf(heap', state'.sourcePositions)
                tgt == DataOf(heap', state'.targetPositions)
            IN  \A p \in 1 .. props.numParticles :
                  XY(src[p]) # DROP_POSITION /\ XY(tgt[p]) # DROP_POSITION =>
                    /\ tgt[p] = old[p]
                    /\ \/ src[p] = old[p]
                       \/ \E seed \in SeedSpace(scope) :
                            src[p] = advect(old[p],
                                            Uniforms(state, props, viewport, time, seed))
    ]_vars

\* a slot was dropped and respawned while its trail was drawn: the segment
\* from the drop to the respawned position is not drawn, the one that follows
\* the respawn is
TrailBrokenAtDrop ==
  /\ state.initialized
  /\ Len(obs.written) >= 4
  /\ LET n == props.numParticles
         src == DataOf(heap, state.sourcePositions)
         tgt == DataOf(heap, state.targetPositions)
     IN  \E p \in 1 .. n :
           /\ XY(Cohort(src, 0, n, p)) # DROP_POSITION
           /\ XY(Cohort(tgt, 0, n, p)) # DROP_POSITION
           /\ XY(Cohort(src, 1, n, p)) # DROP_POSITION
           /\ XY(Cohort(tgt, 1, n, p)) = DROP_POSITION

\* ------------------------------------------------------------------------
\* C36  Every position buffer, colour buffer and transform the layer created
\* is destroyed exactly once: the four references a teardown destroys name
\* four different live objects, no destroy() reaches an object already
\* destroyed, an object no reference names is not live, and after
\* finalizeState no object is live.
\* ------------------------------------------------------------------------
DestroyedExactlyOnce ==
  LET refs == {state.sourcePositions, state.targetPositions, state.colors,
               state.transform}
  IN  /\ ~obs.usedDestroyed
      /\ state.initialized =>
           /\ Cardinality(refs) = 4
           /\ \A r \in refs : Live(heap, r)
      /\ \A i \in LiveObjects(heap) : state.initialized /\ i \in refs
      /\ finalized => LiveObjects(heap) = {} /\ ~state.initialized

\* the layer was finalized after two ticks, that is, after two swaps of the
\* buffers' roles
FinalizedAfterTicks ==
  /\ finalized
  /\ Len(obs.written) >= 2
  /\ LiveObjects(heap) = {}

\* ------------------------------------------------------------------------
\* C37  For every box whose longitude span s = max - min satisfies
\* 0 <= s < 360, the box wrapBounds returns has the longitude span s, and its
\* minimum longitude is wrapLongitude of the input minimum: the one value in
\* [-180, 180) that differs from it by whole turns.
\* ------------------------------------------------------------------------
SpanPreserved ==
  LET s == call.bounds[3] - call.bounds[1]
  IN  BoundsWrapped /\ 0 <= s /\ s < Deg(360) =>
        LET out == call.result[1]
        IN  /\ out[3] - out[1] = s
            /\ out[1] = wrapLongitude(call.bounds[1], <<>>)
            /\ Deg(-180) <= out[1] /\ out[1] < Deg(180)
            /\ \E k \in (0 - (MaxTurns + 2)) .. (MaxTurns + 2) :
                 out[1] = call.bounds[1] + k * Deg(360)

\* the box from 350 to 540 came back as the box from -10 to 180
WrappedBoxKeptSpan ==
  /\ BoundsWrapped
  /\ call.bounds[1] = Deg(350) /\ call.bounds[3] = Deg(540)
  /\ call.result[1][1] = Deg(-10) /\ call.result[1][3] = Deg(180)

\* ------------------------------------------------------------------------
\* C38  An update of a ready layer that changes numParticles, maxAge or width
\* to valid values, with a loaded image, leaves a ready layer whose two
\* position buffers have the new length and hold the sentinel in every
\* record, whose recorded zoom and time are those of setup (0 and 0), and
\* whose textures are the image of the new props and its imageNext (the image
\* again when imageNext is not loaded): nothing of the old buffers survives.
\* ------------------------------------------------------------------------
RebuildStartsAfresh ==
  [][ /\ state.initialized
      /\ StructureChanged(props', props)
      /\ ValidStructure(props')
      /\ IsTexture(props'.image)
      => LET src == DataOf(heap', state'.sourcePositions)
             tgt == DataOf(heap', state'.targetPositions)
         IN  /\ state'.initialized
             /\ Len(src) = props'.numParticles * props'.maxAge
             /\ Len(tgt) = props'.numParticles * props'.maxAge
             /\ AllSentinel(src) /\ AllSentinel(tgt)
             /\ obs'.written = <<>>
             /\ state'.previousViewportZoom = 0
             /\ state'.previousTime = 0
             /\ state'.texture = props'.image
             /\ state'.textureNext = (IF IsTexture(props'.imageNext)
                                      THEN props'.imageNext ELSE props'.image) ]_vars

\* a set built anew, with both images of the new props, while a callback
\* requested on the old set is still pending
RebuiltWithNewImages ==
  /\ state.initialized
  /\ timers # <<>>
  /\ ~Truthy(state.stepRequested)
  /\ time > 0
  /\ state.previousTime = 0
  /\ state.texture = "T3" /\ state.textureNext = "T2"
  /\ AllSentinel(DataOf(heap, state.sourcePositions))
  /\ AllSentinel(DataOf(heap, state.targetPositions))

\* ------------------------------------------------------------------------
\* The demo application (app.tsx): the control panel's source mode, overlay
\* and flow switches
\* ------------------------------------------------------------------------
Overlays == {"topo", "mag", "deep", "vort", "sst", "sss", "ice", "wind", "wind10"}

\* a faulty option list that offers every overlay in simulation mode;
\* OverlayOfferedForMode tells it from dataOptions
dataOptions_allInSimulation(sourceMode) ==
  IF sourceMode = "observation"
  THEN {o \in Overlays : o \in {"topo", "mag", "sst", "sss", "ice", "wind10"}}
  ELSE Overlays

\* the ids of the data buttons the panel shows
dataOptions(sourceMode) ==
  IF sourceMode = "observation"
  THEN {o \in Overlays : o \in {"topo", "mag", "sst", "sss", "ice", "wind10"}}
  ELSE {o \in Overlays : o # "wind10"}

\* the two effects that depend on overlay; they run after a render in which
\* overlay changed
overlayEffects(a, oldOverlay) ==
  IF a.overlay = oldOverlay THEN a
  ELSE [a EXCEPT !.showParticles = ~(a.overlay \in {"deep", "wind", "wind10"}),
                 !.showWindFlow = IF a.overlay \in {"wind", "wind10"} THEN TRUE ELSE @]

layerVars == <<scope, props, state, heap, timers, time, viewport, finalized, obs, sh, call>>

\* the open button: pointer up without a drag
openPanel ==
  /\ ~app.panelOpen
  /\ app' = [app EXCEPT !.panelOpen = TRUE]
  /\ UNCHANGED layerVars

\* the panel's close button
closePanel ==
  /\ app.panelOpen
  /\ app' = [app EXCEPT !.panelOpen = FALSE]
  /\ UNCHANGED layerVars

\* the Model button
simulationClick ==
  /\ app.panelOpen
  /\ app' = overlayEffects(
              [app EXCEPT !.sourceMode = "simulation",
                          !.overlay = IF @ = "wind10" THEN "wind" ELSE @],
              app.overlay)
  /\ UNCHANGED layerVars

\* the Observation button
observationClick ==
  /\ app.panelOpen
  /\ app' = overlayEffects(
              [app EXCEPT !.sourceMode = "observation",
                          !.overlay =
                             IF /\ @ # "topo" /\ @ # "mag" /\ @ # "sst"
                                /\ @ # "sss" /\ @ # "ice" /\ @ # "wind10"
                             THEN "mag" ELSE @],
              app.overlay)
  /\ UNCHANGED layerVars

\* a data button: one is shown for each of dataOptions
dataClick(opt) ==
  /\ app.panelOpen
  /\ opt \in dataOptions(app.sourceMode)
  /\ app' = overlayEffects([app EXCEPT !.overlay = opt], app.overlay)
  /\ UNCHANGED layerVars

\* the Surface Flow switch, disabled under the deep and wind overlays
surfaceFlowClick ==
  /\ app.panelOpen
  /\ ~(app.overlay \in {"deep", "wind", "wind10"})
  /\ app' = [app EXCEPT !.showParticles = ~@]
  /\ UNCHANGED layerVars

\* the Wind switch
windFlowClick ==
  /\ app.panelOpen
  /\ app' = [app EXCEPT !.showWindFlow = ~@]
  /\ UNCHANGED layerVars

\* the Movie switch, and the effect that copies movieOn to playing
movieClick ==
  /\ app.panelOpen
  /\ app' = [app EXCEPT !.movieOn = ~@, !.playing = ~app.movieOn]
  /\ UNCHANGED layerVars

\* the useState initial values, after the effects of the first render
AppInit ==
  /\ scope = "app"
  /\ props = MkProps(2, 3, 1, Null, Null, FALSE, Globe, 1, 0, <<-128, 127>>)
  /\ state = InitState
  /\ heap = [i \in HeapIds |-> Free]
  /\ timers = <<>>
  /\ time = 0
  /\ viewport = [zoom |-> 0, box |-> HomeBox]
  /\ finalized = FALSE
  /\ obs = InitObs
  /\ sh = <<>>
  /\ call = <<>>
  /\ app = [panelOpen |-> FALSE, sourceMode |-> "simulation", overlay |-> "topo",
            showParticles |-> TRUE, showWindFlow |-> FALSE, movieOn |-> FALSE,
            playing |-> FALSE]

AppNext ==
  \/ openPanel
  \/ closePanel
  \/ simulationClick
  \/ observationClick
  \/ \E opt \in Overlays : dataClick(opt)
  \/ surfaceFlowClick
  \/ windFlowClick
  \/ movieClick

AppSpec == AppInit /\ [][AppNext]_vars

\* ------------------------------------------------------------------------
\* C39  After any sequence of source-mode clicks and data-option clicks the
\* selected overlay is one the panel offers for the current source mode: in
\* observation mode one of topo, mag, sst, sss, ice and wind10, in simulation
\* mode never wind10.
\* ------------------------------------------------------------------------
OverlayOfferedForMode ==
  /\ app.sourceMode = "observation" =>
       app.overlay \in {"topo", "mag", "sst", "sss", "ice", "wind10"}
  /\ app.sourceMode = "simulation" => app.overlay # "wind10"
  /\ app.overlay \in Overlays
  /\ app.sourceMode \in {"simulation", "observation"}

\* the Model button was clicked while 10m Wind was selected: the overlay is
\* Wind Stress, with the wind flow on and the surface flow off
WindStressAfterModeSwitch ==
  /\ app.sourceMode = "simulation"
  /\ app.overlay = "wind"
  /\ app.showWindFlow
  /\ ~app.showParticles

====
